---- MODULE Spec2Model ----
(***************************************************************************)
(* A model of docforge: apply-docs.py (the block renderer and the          *)
(* synchronization driver) and harvest-docs.py (the comment-block          *)
(* normaliser, tokenizer and example extractor).                           *)
(*                                                                         *)
(* Representation of strings.  A Python str is a sequence of lexemes; a    *)
(* lexeme is a TLA+ string that stands for the characters it spells.       *)
(* " " and "\n" are the whitespace lexemes.  "/**", "*/", "<!--", "-->",   *)
(* "doc-id:", the code fence, "//" and the "@..." tags are atomic lexemes; *)
(* a word                                                                  *)
(* (letters and digits) is one lexeme, and two word lexemes are never      *)
(* adjacent.  Regular expressions are translated lexeme by lexeme.         *)
(* Offsets keep Python's convention: 0-based, half-open [start, end).      *)
(***************************************************************************)
EXTENDS Integers, Sequences, FiniteSets, TLC

VARIABLES
    text,            \* the source file's content
    docs,            \* the document store: doc-id -> DocEntry
    strict,          \* --strict
    example_lang,    \* --lang
    original,        \* the content the last synchronization run read
    replaced_ids,    \* the changed-identifier list of the last run
    missing_ids,     \* the unresolved-identifier list of the last run
    runs,            \* number of synchronization runs so far
    doc,             \* the DocEntry handed to the renderer
    doc_lang,        \* the rendering language handed to the renderer
    rendered,        \* render_docblock's result
    redoc,           \* the document re-extracted from the rendered block
    rerendered,      \* the rendering of the re-extracted document
    pc,              \* position of the render / extract / re-render pipeline
    out_dir,         \* seed: the YAML files of out_dir, path -> payload
    prior_dir,       \* seed: the store as the last pass found it
    fresh_payloads,  \* seed: the payloads the last pass built, before the merge
    generated_paths, \* seed: the paths the last pass wrote
    flagged_paths,   \* seed: the paths of the blocks the last pass skipped as internal / hidden
    prune_orphans,   \* seed: --prune of the last pass
    passes,          \* seed: number of passes so far
    sig_line,        \* _infer_doc_id: the signature line
    ctr_name,        \* _infer_doc_id: the container name, <<>> for None
    ctr_kind,        \* _infer_doc_id: the container kind, <<>> for None
    inferred_id,     \* _infer_doc_id: the result, <<>> for None
    ipc,             \* _infer_doc_id: called or not yet
    args_state,      \* main: "ok", or which directory argument is no directory
    disk,            \* main: the source files, path -> content
    on_entry,        \* main: the source files as the command found them
    run_mode,        \* main: "write", "check" or "dry_run"
    file_idx,        \* main: number of files the loop has processed
    changes,         \* main: the FileChange list
    missing_total,   \* main: the unresolved identifiers of all files
    written_files,   \* main: the paths written so far
    exit_code,       \* main: the return value, -1 while running
    mpc,             \* main: position in the command
    doc_lines,       \* extractor: the normalized lines of a doc block
    tokens,          \* extractor: tokenize_doc_lines' result
    extraction,      \* extractor: extract_description_examples_categories' result
    xpc,             \* extractor: position
    ex_state,        \* extractor: the locals of the loop over the tokens
    ts_text,         \* insert-ids: the content of the TypeScript file
    ts_before,       \* insert-ids: the content the last pass read
    ts_changed,      \* insert-ids: number of blocks the last pass changed
    ts_passes,       \* insert-ids: number of passes so far
    ts_limit         \* insert-ids: the --limit of the run, NoLimit for none

syncVars == <<text, docs, strict, example_lang, original, replaced_ids, missing_ids, runs>>
renderVars == <<doc, doc_lang, rendered, redoc, rerendered, pc>>
seedVars == <<out_dir, prior_dir, fresh_payloads, generated_paths, flagged_paths, prune_orphans, passes>>
inferVars == <<sig_line, ctr_name, ctr_kind, inferred_id, ipc>>
mainVars == <<args_state, disk, on_entry, run_mode, file_idx, changes, missing_total, written_files,
              exit_code, mpc>>
extractVars == <<doc_lines, tokens, extraction, xpc, ex_state>>
insertVars == <<ts_text, ts_before, ts_changed, ts_passes, ts_limit>>
vars == <<text, docs, strict, example_lang, original, replaced_ids, missing_ids, runs,
          doc, doc_lang, rendered, redoc, rerendered, pc,
          out_dir, prior_dir, fresh_payloads, generated_paths, flagged_paths, prune_orphans, passes,
          sig_line, ctr_name, ctr_kind, inferred_id, ipc,
          args_state, disk, on_entry, run_mode, file_idx, changes, missing_total, written_files,
          exit_code, mpc,
          doc_lines, tokens, extraction, xpc,
          ex_state, ts_text, ts_before, ts_changed, ts_passes, ts_limit>>

\* the values of the variables a specification does not use
SeedIdle ==
    /\ out_dir = <<>>
    /\ prior_dir = <<>>
    /\ fresh_payloads = <<>>
    /\ generated_paths = {}
    /\ flagged_paths = {}
    /\ prune_orphans = FALSE
    /\ passes = 0
InferIdle ==
    /\ sig_line = <<>>
    /\ ctr_name = <<>>
    /\ ctr_kind = <<>>
    /\ inferred_id = <<>>
    /\ ipc = "idle"
MainIdle ==
    /\ args_state = "ok"
    /\ disk = <<>>
    /\ on_entry = <<>>
    /\ run_mode = "dry_run"
    /\ file_idx = 0
    /\ changes = <<>>
    /\ missing_total = {}
    /\ written_files = {}
    /\ exit_code = -1
    /\ mpc = "idle"
ExtractIdle ==
    /\ doc_lines = <<>>
    /\ tokens = <<>>
    /\ extraction = <<>>
    /\ xpc = "idle"
    /\ ex_state = <<>>
InsertIdle ==
    /\ ts_text = <<>>
    /\ ts_before = <<>>
    /\ ts_changed = 0
    /\ ts_passes = 0
    /\ ts_limit = -1

-----------------------------------------------------------------------------
(* Bounds of the model. *)

MaxBlocks == 2
MaxIndent == 1
MaxRuns == 2
MaxDescLines == 3

-----------------------------------------------------------------------------
(* Python str primitives on lexeme sequences. *)

SP == " "
NL == "\n"
\* the code-fence marker, three backticks (a backtick cannot be written in a
\* TLA+ string)
FENCE == "~~~"
Whitespace == {SP, NL}

Min(S) == CHOOSE x \in S : \A y \in S : x <= y
Max(S) == CHOOSE x \in S : \A y \in S : y <= x
Range(s) == {s[i] : i \in DOMAIN s}
Last(s) == s[Len(s)]
Reverse(s) == [i \in 1..Len(s) |-> s[Len(s) + 1 - i]]

\* s[a:b] for 0 <= a, b
Slice(s, a, b) == SubSeq(s, a + 1, IF b > Len(s) THEN Len(s) ELSE b)

\* s.strip(chars), s.lstrip(chars), s.rstrip(chars)
StripChars(s, cs) ==
    LET keep == {i \in 1..Len(s) : s[i] \notin cs}
    IN  IF keep = {} THEN <<>> ELSE SubSeq(s, Min(keep), Max(keep))
LStripChars(s, cs) ==
    LET keep == {i \in 1..Len(s) : s[i] \notin cs}
    IN  IF keep = {} THEN <<>> ELSE SubSeq(s, Min(keep), Len(s))
RStripChars(s, cs) ==
    LET keep == {i \in 1..Len(s) : s[i] \notin cs}
    IN  IF keep = {} THEN <<>> ELSE SubSeq(s, 1, Max(keep))

strip(s) == StripChars(s, Whitespace)
lstrip(s) == LStripChars(s, Whitespace)
rstrip(s) == RStripChars(s, Whitespace)

\* s.splitlines(): a trailing newline opens no further line
RECURSIVE splitlines(_)
splitlines(s) ==
    IF s = <<>> THEN <<>>
    ELSE LET nls == {i \in 1..Len(s) : s[i] = NL}
         IN  IF nls = {} THEN <<s>>
             ELSE <<SubSeq(s, 1, Min(nls) - 1)>>
                  \o splitlines(SubSeq(s, Min(nls) + 1, Len(s)))

\* "\n".join(lines)
RECURSIVE join(_)
join(lines) ==
    IF lines = <<>> THEN <<>>
    ELSE IF Len(lines) = 1 THEN lines[1]
    ELSE lines[1] \o <<NL>> \o join(Tail(lines))

\* body(x) for x the value of e, with e evaluated once
With(e, body(_)) == CHOOSE y \in {body(x) : x \in {e}} : TRUE

\* the concatenation of a sequence of sequences
Flatten(ss) == LET RECURSIVE F(_)
                   F(r) == IF r = <<>> THEN <<>> ELSE Head(r) \o F(Tail(r))
               IN  F(ss)

\* the longest prefix of s made of lexemes of cs (re.match(r"[cs]*", s))
LeadingRun(s, cs) ==
    LET stop == {i \in 1..Len(s) : s[i] \notin cs}
    IN  IF stop = {} THEN s ELSE SubSeq(s, 1, Min(stop) - 1)

-----------------------------------------------------------------------------
(* Lexeme classes. *)

\* lexemes made of letters and digits only
Words == {"hello", "old", "a", "b", "k", "z", "t", "T", "Z", "A", "B",
          "c1", "c2", "x", "int", "objc", "ts", "Example", "example",
          "1", "2", "3", "4", "5", "6", "7", "8", "9"}
\* [A-Za-z0-9_.-]
IsIdLexeme(c) == c \in Words \cup {"-", ".", "_"}

\* the id lexemes in ascending code-point order, as sorted() compares them
LexOrder == <<"-", ".", "1", "2", "3", "4", "5", "6", "7", "8", "9", "A", "B", "Example", "T", "Z", "_", "a", "b",
              "c1", "c2", "example", "hello", "int", "k", "objc", "old", "t",
              "ts", "x", "z">>
LexRank(c) == IF \E i \in DOMAIN LexOrder : LexOrder[i] = c
              THEN CHOOSE i \in DOMAIN LexOrder : LexOrder[i] = c
              ELSE 0

\* a < b for two str keys
RECURSIVE StrLess(_, _)
StrLess(a, b) ==
    IF b = <<>> THEN FALSE
    ELSE IF a = <<>> THEN TRUE
    ELSE IF Head(a) = Head(b) THEN StrLess(Tail(a), Tail(b))
    ELSE LexRank(Head(a)) < LexRank(Head(b))

\* sorted(keys)
RECURSIVE sorted(_)
sorted(S) ==
    IF S = {} THEN <<>>
    ELSE LET m == CHOOSE x \in S : \A y \in S \ {x} : StrLess(x, y)
         IN  <<m>> \o sorted(S \ {m})

-----------------------------------------------------------------------------
(* apply-docs.py: the block renderer. *)

\* f"<!-- doc-id: {doc_id} -->"
DocIdMarker(doc_id) == <<"<!--", SP, "doc-id:", SP>> \o doc_id \o <<SP, "-->">>

\* EXAMPLE_PLACEHOLDER_RE = ^\s*@example\s+(?P<key>[A-Za-z0-9_.-]+)\s*$
PlaceholderMatch(raw_ln) ==
    LET s == strip(raw_ln)
    IN  /\ Len(s) >= 3
        /\ s[1] = "@example"
        /\ s[2] \in Whitespace
        /\ LET key == lstrip(Tail(s))
           IN  key # <<>> /\ \A i \in DOMAIN key : IsIdLexeme(key[i])
PlaceholderKey(raw_ln) == lstrip(Tail(strip(raw_ln)))

detect_docblock_style(current_block, indent) ==
    [open_line   |-> indent \o <<"/**">>,
     line_prefix |-> indent \o <<SP, "*", SP>>,
     blank_line  |-> indent \o <<SP, "*">>,
     close_line  |-> indent \o <<SP, "*/">>]

\* Path(p).name
PathName(p) ==
    LET seps == {i \in 1..Len(p) : p[i] = "/"}
    IN  IF seps = {} THEN p ELSE SubSeq(p, Max(seps) + 1, Len(p))

MissingLine(example_key) == <<"//", SP, "MISSING", SP, "example", SP>> \o example_key
WarningLine(lang, example_key) ==
    <<"//", SP, "WARNING:", SP, SP, "No example block found for lang", SP, "\"">>
    \o lang \o <<"\"", SP, "for", SP>> \o example_key
FilenameLine(name) == <<"//", SP, "Filename:", SP>> \o name

emit_missing_example(lines, d, example_key, lang, style) ==
    lines \o << rstrip(style.line_prefix \o <<FENCE>> \o lang),
                style.line_prefix \o MissingLine(example_key),
                style.line_prefix \o FilenameLine(PathName(d.yaml_path)),
                rstrip(style.line_prefix \o <<FENCE>>) >>

emit_missing_lang(lines, d, example_key, lang, style) ==
    lines \o << rstrip(style.line_prefix \o <<FENCE>> \o lang),
                style.line_prefix \o WarningLine(lang, example_key),
                style.line_prefix \o FilenameLine(d.yaml_path),
                rstrip(style.line_prefix \o <<FENCE>>) >>

\* a slip: each code line is trimmed on both sides, losing its indentation
emit_snippet_both_trimmed(lines, snippet, lang, style) ==
    LET body == splitlines(RStripChars(snippet, {NL}))
    IN  lines
        \o << rstrip(style.line_prefix \o <<FENCE>> \o lang) >>
        \o [i \in 1..Len(body) |-> rstrip(style.line_prefix \o strip(body[i]))]
        \o << rstrip(style.line_prefix \o <<FENCE>>) >>

\* the fenced code of a non-blank snippet
emit_snippet(lines, snippet, lang, style) ==
    LET body == splitlines(RStripChars(snippet, {NL}))
    IN  lines
        \o << rstrip(style.line_prefix \o <<FENCE>> \o lang) >>
        \o [i \in 1..Len(body) |-> rstrip(style.line_prefix \o body[i])]
        \o << rstrip(style.line_prefix \o <<FENCE>>) >>

\* title = str(ex.get("title") or "") if ex is a dict, else ""; "Example" if empty
ExampleTitle(d, key) ==
    IF key \in DOMAIN d.examples /\ d.examples[key].title # <<>>
    THEN d.examples[key].title
    ELSE <<"Example">>

\* a slip: an absent key is reported like an absent language
emit_example_absent_as_warning(lines, d, key, lang, style) ==
    LET headed == Append(lines,
                         rstrip(style.line_prefix \o <<"@example", SP>> \o ExampleTitle(d, key)))
    IN  IF key \notin DOMAIN d.examples
        THEN emit_missing_lang(headed, d, key, lang, style)
        ELSE LET code_map == d.examples[key].code
             IN  IF lang \in DOMAIN code_map /\ strip(code_map[lang]) # <<>>
                 THEN emit_snippet(headed, code_map[lang], lang, style)
                 ELSE emit_missing_lang(headed, d, key, lang, style)

\* a slip: an absent language falls back to another language's code
emit_example_with_fallback(lines, d, key, lang, style) ==
    LET headed == Append(lines,
                         rstrip(style.line_prefix \o <<"@example", SP>> \o ExampleTitle(d, key)))
    IN  IF key \notin DOMAIN d.examples
        THEN emit_missing_example(headed, d, key, lang, style)
        ELSE LET code_map == d.examples[key].code
                 others   == {l \in DOMAIN code_map : strip(code_map[l]) # <<>>}
             IN  IF lang \in DOMAIN code_map /\ strip(code_map[lang]) # <<>>
                 THEN emit_snippet(headed, code_map[lang], lang, style)
                 ELSE IF others # {}
                 THEN emit_snippet(headed, code_map[CHOOSE l \in others : TRUE], lang, style)
                 ELSE emit_missing_lang(headed, d, key, lang, style)

\* the heading line, then the code, the MISSING stub or the WARNING stub
emit_example(lines, d, key, lang, style) ==
    LET headed == Append(lines,
                         rstrip(style.line_prefix \o <<"@example", SP>> \o ExampleTitle(d, key)))
    IN  IF key \notin DOMAIN d.examples
        THEN emit_missing_example(headed, d, key, lang, style)
        ELSE LET code_map == d.examples[key].code
             IN  IF lang \in DOMAIN code_map /\ strip(code_map[lang]) # <<>>
                 THEN emit_snippet(headed, code_map[lang], lang, style)
                 ELSE emit_missing_lang(headed, d, key, lang, style)

EnsureBlank(lines, style) ==
    IF lines # <<>> /\ Last(lines) # style.blank_line
    THEN Append(lines, style.blank_line)
    ELSE lines

\* one iteration of the loop over desc.splitlines(); acc = [lines, seen]
render_desc_line(acc, raw_ln, d, lang, style) ==
    IF raw_ln = <<>>
    THEN [acc EXCEPT !.lines = Append(@, style.blank_line)]
    ELSE IF PlaceholderMatch(raw_ln)
    THEN LET key == PlaceholderKey(raw_ln)
         IN  [lines |-> Append(emit_example(EnsureBlank(acc.lines, style), d, key, lang, style),
                               style.blank_line),
              seen  |-> IF key \in Range(acc.seen) THEN acc.seen ELSE Append(acc.seen, key)]
    ELSE [acc EXCEPT !.lines = Append(@, rstrip(style.line_prefix \o rstrip(raw_ln)))]

RECURSIVE render_description(_, _, _, _, _)
render_description(acc, desc_lines, d, lang, style) ==
    IF desc_lines = <<>> THEN acc
    ELSE render_description(render_desc_line(acc, Head(desc_lines), d, lang, style),
                            Tail(desc_lines), d, lang, style)

RECURSIVE TrimTrailingBlank(_, _)
TrimTrailingBlank(lines, style) ==
    IF lines # <<>> /\ Last(lines) = style.blank_line
    THEN TrimTrailingBlank(SubSeq(lines, 1, Len(lines) - 1), style)
    ELSE lines

RECURSIVE emit_all_examples(_, _, _, _, _)
emit_all_examples(lines, keys, d, lang, style) ==
    IF keys = <<>> THEN lines
    ELSE emit_all_examples(Append(emit_example(lines, d, Head(keys), lang, style),
                                  style.blank_line),
                           Tail(keys), d, lang, style)

\* a slip: the examples are emitted in descending key order
render_trailing_examples_descending(acc, d, lang, style) ==
    IF acc.seen = <<>> /\ DOMAIN d.examples # {}
    THEN TrimTrailingBlank(
             emit_all_examples(EnsureBlank(acc.lines, style),
                               Reverse(sorted(DOMAIN d.examples)), d, lang, style),
             style)
    ELSE acc.lines

\* "If no placeholders were present, render all examples at the end"
render_trailing_examples(acc, d, lang, style) ==
    IF acc.seen = <<>> /\ DOMAIN d.examples # {}
    THEN TrimTrailingBlank(
             emit_all_examples(EnsureBlank(acc.lines, style),
                               sorted(DOMAIN d.examples), d, lang, style),
             style)
    ELSE acc.lines

\* the list "lines" just before "\n".join
render_lines(d, doc_id, indent, lang, style) ==
    LET head == << style.open_line, rstrip(style.line_prefix \o DocIdMarker(doc_id)) >>
        desc == StripChars(d.description, {NL})
        acc  == render_description([lines |-> head, seen |-> <<>>],
                                   splitlines(desc), d, lang, style)
    IN  Append(render_trailing_examples(acc, d, lang, style), style.close_line)

render_docblock(d, doc_id, indent, lang, style) ==
    join(render_lines(d, doc_id, indent, lang, style))

-----------------------------------------------------------------------------
(* apply-docs.py: the comment block locator. *)

\* DOC_ID_RE = <!--\s*doc-id:\s*([A-Za-z0-9_.-]+)\s*-->  tried at position i
\* (1-based) of s; the captured id, or <<>> when it does not match there
DocIdMatchAt(s, i) ==
    IF s[i] # "<!--" THEN <<>>
    ELSE LET a == LStripChars(SubSeq(s, i + 1, Len(s)), Whitespace)
         IN  IF a = <<>> \/ Head(a) # "doc-id:" THEN <<>>
             ELSE LET b  == LStripChars(Tail(a), Whitespace)
                      id == LeadingRun(b, {c \in Range(b) : IsIdLexeme(c)})
                      c  == LStripChars(SubSeq(b, Len(id) + 1, Len(b)), Whitespace)
                  IN  IF id # <<>> /\ c # <<>> /\ Head(c) = "-->" THEN id ELSE <<>>

\* DOC_ID_RE.search(s).group(1), or <<>> when there is no match
DocIdSearch(s) ==
    LET hits == {i \in 1..Len(s) : DocIdMatchAt(s, i) # <<>>}
    IN  IF hits = {} THEN <<>> ELSE DocIdMatchAt(s, Min(hits))

\* DOCBLOCK_RE = /\*\*([\s\S]*?)\*/([ \t]*\r?\n)?  : the matches of finditer
\* from offset pos on, each [start, end, trailing]
RECURSIVE DocblockMatches(_, _)
DocblockMatches(s, pos) ==
    LET opens == {i \in pos..(Len(s) - 1) : s[i + 1] = "/**"}
    IN  IF opens = {} THEN <<>>
        ELSE LET start  == Min(opens)
                 closes == {j \in (start + 1)..(Len(s) - 1) : s[j + 1] = "*/"}
             IN  IF closes = {} THEN <<>>
                 ELSE LET after  == Min(closes) + 1
                          spaces == Len(LeadingRun(Slice(s, after, Len(s)), {SP}))
                          end    == IF after + spaces < Len(s) /\ s[after + spaces + 1] = NL
                                    THEN after + spaces + 1
                                    ELSE after
                      IN  << [start |-> start, end |-> end,
                              trailing |-> Slice(s, after, end)] >>
                          \o DocblockMatches(s, end)

\* the indentation of the line that holds offset block_start
IndentAt(s, block_start) ==
    LET nls        == {i \in 0..(block_start - 1) : s[i + 1] = NL}
        line_start == IF nls = {} THEN 0 ELSE Max(nls) + 1
    IN  LeadingRun(Slice(s, line_start, block_start), {SP})

RECURSIVE KeepMarked(_, _)
KeepMarked(s, ms) ==
    IF ms = <<>> THEN <<>>
    ELSE LET m      == Head(ms)
             doc_id == DocIdSearch(Slice(s, m.start, m.end))
         IN  IF doc_id = <<>> THEN KeepMarked(s, Tail(ms))
             ELSE << [start |-> m.start, end |-> m.end, doc_id |-> doc_id,
                      indent |-> IndentAt(s, m.start), trailing |-> m.trailing] >>
                  \o KeepMarked(s, Tail(ms))

find_docblocks_with_ids(s) == KeepMarked(s, DocblockMatches(s, 0))

-----------------------------------------------------------------------------
(* apply-docs.py: the synchronization driver. *)

\* a slip: strict mode cuts the unresolved block out of the text
on_missing_strict_cuts(acc, blk, is_strict) ==
    [acc EXCEPT !.missing = Append(@, blk.doc_id),
                !.new_text = IF is_strict
                             THEN Slice(@, 0, blk.start) \o Slice(@, blk.end, Len(@))
                             ELSE @]

\* entry is None: record the id; the block is left alone, strict or not
on_missing(acc, blk, is_strict) ==
    [acc EXCEPT !.missing = Append(@, blk.doc_id)]

\* entry found: render, compare with new_text[start:end], splice on difference
on_resolved(acc, blk, entry, lang) ==
    LET current_block == Slice(acc.new_text, blk.start, blk.end)
        style         == detect_docblock_style(current_block, blk.indent)
        new_block     == render_docblock(entry, blk.doc_id, blk.indent, lang, style)
    IN  IF current_block # new_block
        THEN [acc EXCEPT
                !.new_text = Slice(@, 0, blk.start) \o new_block \o blk.trailing
                             \o Slice(@, blk.end, Len(@)),
                !.replaced = Append(@, blk.doc_id)]
        ELSE acc

\* a slip: the blocks are spliced front to back, with the offsets found
\* before the first splice
RECURSIVE apply_blocks_front_to_back(_, _, _, _, _, _)
apply_blocks_front_to_back(acc, blocks, n, store, is_strict, lang) ==
    IF n = 0 THEN [acc EXCEPT !.replaced = Reverse(@), !.missing = Reverse(@)]
    ELSE LET blk  == blocks[Len(blocks) - n + 1]
             next == IF blk.doc_id \notin DOMAIN store
                     THEN on_missing(acc, blk, is_strict)
                     ELSE on_resolved(acc, blk, store[blk.doc_id], lang)
         IN  apply_blocks_front_to_back(next, blocks, n - 1, store, is_strict, lang)

\* the loop over reversed(blocks); n = number of blocks still to process
RECURSIVE apply_blocks(_, _, _, _, _, _)
apply_blocks(acc, blocks, n, store, is_strict, lang) ==
    IF n = 0 THEN acc
    ELSE LET blk  == blocks[n]
             next == IF blk.doc_id \notin DOMAIN store
                     THEN on_missing(acc, blk, is_strict)
                     ELSE on_resolved(acc, blk, store[blk.doc_id], lang)
         IN  apply_blocks(next, blocks, n - 1, store, is_strict, lang)

apply_docs_to_text(s, store, is_strict, lang) ==
    LET blocks == find_docblocks_with_ids(s)
    IN  IF blocks = <<>>
        THEN [text |-> s, replaced |-> <<>>, missing |-> <<>>]
        ELSE LET acc == apply_blocks([new_text |-> s, replaced |-> <<>>, missing |-> <<>>],
                                     blocks, Len(blocks), store, is_strict, lang)
             IN  [text |-> acc.new_text,
                  replaced |-> Reverse(acc.replaced),
                  missing |-> Reverse(acc.missing)]

-----------------------------------------------------------------------------
(* harvest-docs.py: string utilities. *)

\* str.lower() on one lexeme
Lower(c) ==
    CASE c = "T" -> "t"
      [] c = "Z" -> "z"
      [] c = "A" -> "a"
      [] c = "B" -> "b"
      [] c = "Example" -> "example"
      [] c = "Examples" -> "examples"
      [] c = "Overview" -> "overview"
      [] c = "MISSING" -> "missing"
      [] c = "WARNING:" -> "warning:"
      [] c = "Filename:" -> "filename:"
      [] OTHER -> c
LowerStr(s) == [i \in 1..Len(s) |-> Lower(s[i])]

\* the maximal runs of [a-z0-9] in the lowercased lexeme
SlugWords(c) ==
    IF c \in Words THEN <<Lower(c)>>
    ELSE CASE c = "doc-id:" -> <<"doc", "id">>
           [] c = "docs-db" -> <<"docs", "db">>
           [] c = ".yaml" -> <<"yaml">>
           [] c = "WARNING:" -> <<"warning">>
           [] c = "Filename:" -> <<"filename">>
           [] c = "MISSING" -> <<"missing">>
           [] c = "for" -> <<"for">>
           [] c = "@example" -> <<"example">>
           [] c = "@category" -> <<"category">>
           [] c = "@internal" -> <<"internal">>
           [] c = "@hidden" -> <<"hidden">>
           [] c = "No example block found for lang"
                -> <<"no", "example", "block", "found", "for", "lang">>
           [] OTHER -> <<>>

RECURSIVE JoinWith(_, _)
JoinWith(ws, sep) ==
    IF ws = <<>> THEN <<>>
    ELSE IF Len(ws) = 1 THEN <<ws[1]>>
    ELSE <<ws[1], sep>> \o JoinWith(Tail(ws), sep)

_slugify(title) ==
    LET slug == JoinWith(Flatten([i \in 1..Len(title) |-> SlugWords(title[i])]), "-")
    IN  IF slug = <<>> THEN <<"example">> ELSE slug

\* a fence label of None is <<>>
_normalize_lang(lang) ==
    IF lang = <<>> THEN <<"ts">>
    ELSE LET l == LowerStr(strip(lang))
         IN  IF l \in {<<"ts">>, <<"typescript">>, <<"js">>, <<"javascript">>} THEN <<"ts">>
             ELSE IF l \in {<<"objc">>, <<"obj", "-", "c">>, <<"objective", "-", "c">>,
                            <<"objectivec">>} THEN <<"objc">>
             ELSE IF l \in {<<"kt">>, <<"kts">>} THEN <<"kotlin">>
             ELSE l

\* str(n) for the small numbers of the model
NumLex(n) ==
    CASE n = 1 -> "1" [] n = 2 -> "2" [] n = 3 -> "3" [] n = 4 -> "4"
      [] n = 5 -> "5" [] n = 6 -> "6" [] n = 7 -> "7" [] n = 8 -> "8"
      [] OTHER -> "9"

-----------------------------------------------------------------------------
(* harvest-docs.py: doc block parsing. *)

\* DOC_BLOCK_RE = /\*\*(.*?)\*/ with DOTALL: group 1 of the first match, or
\* <<>> when nothing matches
FirstDocBlockInner(s) ==
    LET opens == {i \in 1..Len(s) : s[i] = "/**"}
    IN  IF opens = {} THEN <<>>
        ELSE LET closes == {j \in (Min(opens) + 1)..Len(s) : s[j] = "*/"}
             IN  IF closes = {} THEN <<>>
                 ELSE SubSeq(s, Min(opens) + 1, Min(closes) - 1)

\* STAR_LINE_RE = ^\s*\*\s?(.*)$ applied to the right-trimmed raw line
StarLine(raw) ==
    LET r == rstrip(raw)
        s == lstrip(r)
    IN  IF s # <<>> /\ Head(s) = "*"
        THEN rstrip(IF Len(s) >= 2 /\ s[2] \in Whitespace
                    THEN SubSeq(s, 3, Len(s))
                    ELSE Tail(s))
        ELSE r

RECURSIVE DropLeadingBlank(_)
DropLeadingBlank(lines) ==
    IF lines # <<>> /\ Head(lines) = <<>> THEN DropLeadingBlank(Tail(lines)) ELSE lines
RECURSIVE DropTrailingBlank(_)
DropTrailingBlank(lines) ==
    IF lines # <<>> /\ Last(lines) = <<>>
    THEN DropTrailingBlank(SubSeq(lines, 1, Len(lines) - 1))
    ELSE lines

normalize_doc_block(block) ==
    LET raws == splitlines(block)
    IN  DropTrailingBlank(DropLeadingBlank([i \in 1..Len(raws) |-> StarLine(raws[i])]))

-----------------------------------------------------------------------------
(* harvest-docs.py: the tokenizer. *)

\* FENCE_RE = ^\s*(three backticks), applied to a stripped line
FenceMatch(s) == s # <<>> /\ Head(s) = FENCE
\* EXAMPLE_TAG_RE = ^@example(?:\s+(?P<label>.+?))?\s*$, on a stripped line
ExampleTagMatch(s) ==
    s # <<>> /\ Head(s) = "@example" /\ (Len(s) = 1 \/ s[2] \in Whitespace)
\* CATEGORY_TAG_RE = ^@category\s+(?P<cat>.+?)\s*$, on a stripped line
CategoryTagMatch(s) ==
    Len(s) >= 3 /\ Head(s) = "@category" /\ s[2] \in Whitespace

RemoveLexemes(s, cs) ==
    LET RECURSIVE R(_)
        R(r) == IF r = <<>> THEN <<>>
                ELSE IF Head(r) \in cs THEN R(Tail(r))
                ELSE <<Head(r)>> \o R(Tail(r))
    IN  R(s)

\* re.sub(r"\s{2,}", " ", s)
CollapseSpaces(s) ==
    LET RECURSIVE C(_)
        C(r) == IF r = <<>> THEN <<>>
                ELSE IF Head(r) \in Whitespace /\ Len(r) >= 2 /\ r[2] \in Whitespace
                THEN <<SP>> \o C(LStripChars(r, Whitespace))
                ELSE <<Head(r)>> \o C(Tail(r))
    IN  C(s)

Token(kind, value, idx, raw) == [kind |-> kind, value |-> value, idx |-> idx, raw |-> raw]

\* the tokens of the line at index i (0-based)
TokensOfLine(line, i) ==
    LET s            == strip(line)
        has_internal == "@internal" \in Range(s)
        has_hidden   == "@hidden" \in Range(s)
        cleaned      == strip(CollapseSpaces(RemoveLexemes(line, {"@internal", "@hidden"})))
    IN  IF CategoryTagMatch(s)
        THEN << Token("CATEGORY", strip(SubSeq(s, 3, Len(s))), i, line) >>
        ELSE IF has_internal \/ has_hidden
        THEN (IF has_internal THEN << Token("INTERNAL", <<>>, i, line) >> ELSE <<>>)
             \o (IF has_hidden THEN << Token("HIDDEN", <<>>, i, line) >> ELSE <<>>)
             \o (IF cleaned = <<>> THEN <<>> ELSE << Token("TEXT", cleaned, i, cleaned) >>)
        ELSE IF ExampleTagMatch(s)
        THEN << Token("EXAMPLE", strip(Tail(s)), i, line) >>
        ELSE IF FenceMatch(s)
        THEN << Token("FENCE", strip(Tail(s)), i, line) >>
        ELSE << Token("TEXT", line, i, line) >>

tokenize_doc_lines(lines) ==
    Flatten([i \in 1..Len(lines) |-> TokensOfLine(lines[i], i - 1)])

-----------------------------------------------------------------------------
(* harvest-docs.py: the example extractor. *)

StartsWithAt(c) == c \in {"@", "@example", "@category", "@internal", "@hidden"}
EndsWithColon(c) == c \in {":", "doc-id:", "WARNING:", "Filename:"}
\* c.rstrip(":") for one lexeme; <<>> when nothing is left
LexemeLessColon(c) ==
    CASE c = ":" -> <<>>
      [] c = "doc-id:" -> <<"doc-id">>
      [] c = "WARNING:" -> <<"WARNING">>
      [] c = "Filename:" -> <<"Filename">>
      [] OTHER -> <<c>>
\* s.rstrip(":")
RECURSIVE RStripColon(_)
RStripColon(s) ==
    IF s = <<>> THEN <<>>
    ELSE IF Last(s) = ":" THEN RStripColon(SubSeq(s, 1, Len(s) - 1))
    ELSE SubSeq(s, 1, Len(s) - 1) \o LexemeLessColon(Last(s))

\* len(s) in characters
RECURSIVE CharLen(_)
CharLen(s) == IF s = <<>> THEN 0 ELSE Len(Head(s)) + CharLen(Tail(s))

\* the two passes that unwrap ** ** or __ __
Unwrap(t) ==
    IF Len(t) >= 2 /\ ((Head(t) = "**" /\ Last(t) = "**") \/ (Head(t) = "__" /\ Last(t) = "__"))
    THEN strip(SubSeq(t, 2, Len(t) - 1))
    ELSE t

TitleMaxLen == 60

_looks_like_title(line) ==
    LET s == strip(line)
    IN  IF s = <<>> \/ StartsWithAt(Head(s)) \/ FenceMatch(s) THEN FALSE
        ELSE IF Head(s) = "|" /\ Last(s) = "|" THEN FALSE
        ELSE IF ~EndsWithColon(Last(s)) THEN FALSE
        ELSE LET t0 == LStripChars(LStripChars(LStripChars(s, Whitespace), {"#"}), Whitespace)
                 t1 == IF Head(lstrip(s)) = "#" THEN t0 ELSE s
                 t2 == Unwrap(Unwrap(t1))
                 t  == LowerStr(strip(RStripColon(t2)))
             IN  IF t \in {<<"examples">>, <<"example">>, <<"overview">>} THEN FALSE
                 ELSE IF CharLen(s) > TitleMaxLen THEN FALSE
                 ELSE TRUE

_normalize_title(line) == strip(RStripColon(strip(line)))

\* lines and indexes are 0-based as in the source: lines[j] is LineAt(lines, j)
LineAt(lines, j) == lines[j + 1]

RECURSIVE SkipBlank(_, _)
SkipBlank(lines, j) ==
    IF j < Len(lines) /\ strip(LineAt(lines, j)) = <<>> THEN SkipBlank(lines, j + 1) ELSE j

\* the first index >= j that holds a fence line, or len(lines)
RECURSIVE NextFence(_, _)
NextFence(lines, j) ==
    IF j < Len(lines) /\ ~FenceMatch(strip(LineAt(lines, j))) THEN NextFence(lines, j + 1) ELSE j

_extract_fenced_code(lines, start_idx) ==
    LET fence_line == strip(LineAt(lines, start_idx))
        close      == NextFence(lines, start_idx + 1)
        code_lines == SubSeq(lines, start_idx + 2, close)
    IN  [lang    |-> strip(Tail(fence_line)),
         code    |-> rstrip(join(code_lines)),
         end_idx |-> IF close < Len(lines) THEN close + 1 ELSE close]

\* the first index >= j that holds an @example tag or a fence, or len(lines)
RECURSIVE FindFenceStart(_, _)
FindFenceStart(lines, j) ==
    IF j >= Len(lines) THEN j
    ELSE IF ExampleTagMatch(strip(LineAt(lines, j))) THEN j
    ELSE IF FenceMatch(strip(LineAt(lines, j))) THEN j
    ELSE FindFenceStart(lines, j + 1)

\* ex_key: base_key, or base_key-2, base_key-3, ... until unused
RECURSIVE UniqueKey(_, _, _)
UniqueKey(base_key, suffix, used_keys) ==
    LET ex_key == IF suffix = 1 THEN base_key ELSE base_key \o <<"-", NumLex(suffix)>>
    IN  IF ex_key \in used_keys THEN UniqueKey(base_key, suffix + 1, used_keys) ELSE ex_key

\* the last index k with desc[k] non-blank (1-based), or 0
LastNonBlank(desc) ==
    LET ks == {k \in 1..Len(desc) : strip(desc[k]) # <<>>}
    IN  IF ks = {} THEN 0 ELSE Max(ks)

\* the token index after the tokens of the lines before end_idx
RECURSIVE AdvancePast(_, _, _)
AdvancePast(toks, i, end_idx) ==
    IF i <= Len(toks) /\ toks[i].idx < end_idx THEN AdvancePast(toks, i + 1, end_idx) ELSE i

\* a slip: the label line before the tag is preferred to the one after it
on_example_token_backward_first(st, tok, toks, lines) ==
    LET example_num == Len(st.examples) + 1
        label_raw   == strip(tok.value)
        base_key    == IF label_raw # <<>> THEN _slugify(label_raw)
                       ELSE <<"example", "-", NumLex(example_num)>>
        j0          == SkipBlank(lines, tok.idx + 1)
        k           == LastNonBlank(st.desc)
        backward    == label_raw = <<>> /\ k >= 1 /\ _looks_like_title(st.desc[k])
        forward     == label_raw = <<>> /\ ~backward /\ j0 < Len(lines)
                       /\ _looks_like_title(LineAt(lines, j0))
        j           == IF forward THEN SkipBlank(lines, j0 + 1) ELSE j0
        has_title   == label_raw # <<>> \/ forward \/ backward
        title       == IF label_raw # <<>> THEN label_raw
                       ELSE IF forward THEN _normalize_title(LineAt(lines, j0))
                       ELSE IF backward THEN _normalize_title(st.desc[k])
                       ELSE <<>>
        desc1       == IF backward THEN SubSeq(st.desc, 1, k - 1) ELSE st.desc
        fence_start == FindFenceStart(lines, j)
    IN  IF fence_start >= Len(lines) \/ ~FenceMatch(strip(LineAt(lines, fence_start)))
        THEN [st EXCEPT !.desc = desc1, !.i = @ + 1]
        ELSE LET fc     == _extract_fenced_code(lines, fence_start)
                 ex_key == UniqueKey(base_key, 1, st.used_keys)
             IN  [st EXCEPT
                    !.desc = Append(desc1, <<"@example", SP>> \o ex_key),
                    !.used_keys = @ \cup {ex_key},
                    !.examples = Append(@,
                        [key   |-> ex_key,
                         title |-> IF has_title /\ title # <<>> THEN title
                                   ELSE <<"Example", SP, NumLex(example_num)>>,
                         lang  |-> _normalize_lang(fc.lang),
                         code  |-> fc.code]),
                    !.i = AdvancePast(toks, st.i, fc.end_idx)]

\* the EXAMPLE branch of the loop; st.i is the 1-based token index
on_example_token(st, tok, toks, lines) ==
    LET example_num == Len(st.examples) + 1
        label_raw   == strip(tok.value)
        base_key    == IF label_raw # <<>> THEN _slugify(label_raw)
                       ELSE <<"example", "-", NumLex(example_num)>>
        j0          == SkipBlank(lines, tok.idx + 1)
        forward     == label_raw = <<>> /\ j0 < Len(lines) /\ _looks_like_title(LineAt(lines, j0))
        j           == IF forward THEN SkipBlank(lines, j0 + 1) ELSE j0
        k           == LastNonBlank(st.desc)
        backward    == label_raw = <<>> /\ ~forward /\ k >= 1 /\ _looks_like_title(st.desc[k])
        has_title   == label_raw # <<>> \/ forward \/ backward
        title       == IF label_raw # <<>> THEN label_raw
                       ELSE IF forward THEN _normalize_title(LineAt(lines, j0))
                       ELSE IF backward THEN _normalize_title(st.desc[k])
                       ELSE <<>>
        desc1       == IF backward THEN SubSeq(st.desc, 1, k - 1) ELSE st.desc
        fence_start == FindFenceStart(lines, j)
    IN  IF fence_start >= Len(lines) \/ ~FenceMatch(strip(LineAt(lines, fence_start)))
        THEN [st EXCEPT !.desc = desc1, !.i = @ + 1]
        ELSE LET fc     == _extract_fenced_code(lines, fence_start)
                 ex_key == UniqueKey(base_key, 1, st.used_keys)
             IN  [st EXCEPT
                    !.desc = Append(desc1, <<"@example", SP>> \o ex_key),
                    !.used_keys = @ \cup {ex_key},
                    !.examples = Append(@,
                        [key   |-> ex_key,
                         title |-> IF has_title /\ title # <<>> THEN title
                                   ELSE <<"Example", SP, NumLex(example_num)>>,
                         lang  |-> _normalize_lang(fc.lang),
                         code  |-> fc.code]),
                    !.i = AdvancePast(toks, st.i, fc.end_idx)]

\* one iteration of the loop over the tokens
extract_step(st, toks, lines) ==
    LET tok == toks[st.i]
    IN  IF tok.kind = "FENCE"
        THEN [st EXCEPT !.in_fence = ~@, !.desc = Append(@, tok.raw), !.i = @ + 1]
        ELSE IF st.in_fence
        THEN [st EXCEPT !.desc = Append(@, tok.raw), !.i = @ + 1]
        ELSE IF tok.kind = "CATEGORY"
        THEN [st EXCEPT !.categories = Append(@, tok.value), !.i = @ + 1]
        ELSE IF tok.kind = "INTERNAL"
        THEN [st EXCEPT !.flags = @ \cup {"internal"}, !.i = @ + 1]
        ELSE IF tok.kind = "HIDDEN"
        THEN [st EXCEPT !.flags = @ \cup {"hidden"}, !.i = @ + 1]
        ELSE IF tok.kind = "EXAMPLE"
        THEN on_example_token(st, tok, toks, lines)
        ELSE [st EXCEPT !.desc = Append(@, tok.raw), !.i = @ + 1]

RECURSIVE extract_loop(_, _, _)
extract_loop(st, toks, lines) ==
    IF st.i > Len(toks) THEN st ELSE extract_loop(extract_step(st, toks, lines), toks, lines)

RECURSIVE DropTrailingBlankDesc(_)
DropTrailingBlankDesc(desc) ==
    IF desc # <<>> /\ strip(Last(desc)) = <<>>
    THEN DropTrailingBlankDesc(SubSeq(desc, 1, Len(desc) - 1))
    ELSE desc

extract_description_examples_categories(lines) ==
    LET toks == tokenize_doc_lines(lines)
        st   == extract_loop([desc |-> <<>>, examples |-> <<>>, categories |-> <<>>,
                              flags |-> {}, used_keys |-> {}, in_fence |-> FALSE, i |-> 1],
                             toks, lines)
    IN  [desc |-> DropTrailingBlankDesc(st.desc), examples |-> st.examples,
         categories |-> st.categories, flags |-> st.flags]

\* seed_docs: the examples map built from the extracted list (a later key
\* overwrites an equal earlier one)
RECURSIVE ExamplesPayload(_)
ExamplesPayload(examples_list) ==
    IF examples_list = <<>> THEN <<>>
    ELSE LET ex == Last(examples_list)
         IN  (ex.key :> [title |-> ex.title, code |-> (ex.lang :> ex.code)])
             @@ ExamplesPayload(SubSeq(examples_list, 1, Len(examples_list) - 1))

\* seed_docs: the document parsed from the first doc block of s
parse_doc_block(s, path) ==
    LET norm_lines == normalize_doc_block(FirstDocBlockInner(s))
        ex         == extract_description_examples_categories(norm_lines)
    IN  [description |-> strip(join(ex.desc)),
         examples    |-> ExamplesPayload(ex.examples),
         yaml_path   |-> path]

-----------------------------------------------------------------------------
(* harvest-docs.py: TypeScript signature parsing. *)

\* the word lexemes of TypeScript source
TsWords == {"export", "interface", "class", "enum", "type", "const", "function",
            "public", "protected", "private", "readonly",
            "Foo", "Bar", "y", "f", "string", "publicKey", "Key",
            "BackgroundGeolocationEvents", "BackgroundGeolocation", "c"}
Digits == {"1", "2", "3", "4", "5", "6", "7", "8", "9"}
\* [A-Za-z_]\w* over a whole lexeme
IsName(c) == c \in (Words \ Digits) \cup TsWords

\* (?:public|protected|private)? at the head of r: the rest of r when a
\* modifier is consumed (it may be the head of a longer word), <<>> when none
AfterModifier(r) ==
    IF r = <<>> THEN <<>>
    ELSE IF Head(r) \in {"public", "protected", "private"} THEN <<"">> \o Tail(r)
    ELSE IF Head(r) = "publicKey" THEN <<"", "Key">> \o Tail(r)
    ELSE <<>>

\* DOCID_CONTAINER_ALIASES.get(name, name); None is <<>>
_resolve_doc_container(name) ==
    IF name = <<"BackgroundGeolocationEvents">> THEN <<"BackgroundGeolocation">>
    ELSE IF name = <<"BackgroundGeolocationAPI">> THEN <<"BackgroundGeolocation">>
    ELSE name

\* word\s+ at the head of r: what follows, or <<>> when it does not match
AfterWord(r, w) ==
    IF Len(r) >= 2 /\ Head(r) = w /\ r[2] \in Whitespace THEN lstrip(Tail(r)) ELSE <<>>

\* (?P<name>[A-Za-z_]\w*)\b at the head of r: <<name>> or <<>>
NameAt(r) == IF r # <<>> /\ IsName(Head(r)) THEN <<Head(r)>> ELSE <<>>

\* EXPORT_CONST_RE.match(s): the name, or <<>>
ExportConstMatch(s) ==
    NameAt(AfterWord(AfterWord(lstrip(s), "export"), "const"))

\* EXPORT_NAMED_RE.match(s): the name, or <<>>
ExportNamedMatch(s) ==
    LET r == AfterWord(lstrip(s), "export")
    IN  IF r # <<>> /\ Head(r) \in {"interface", "class", "enum", "type"}
        THEN NameAt(AfterWord(r, Head(r)))
        ELSE <<>>

\* EXPORT_CONTAINER_RE.match(line): <<name, kind>>, or <<>>
ExportContainerMatch(line) ==
    LET r == AfterWord(lstrip(line), "export")
    IN  IF r # <<>> /\ Head(r) \in {"interface", "class", "enum"}
           /\ NameAt(AfterWord(r, Head(r))) # <<>>
        THEN NameAt(AfterWord(r, Head(r))) \o <<Head(r)>>
        ELSE <<>>

\* EXPORT_CONST_OBJECT_RE.match(line): the name, or <<>>
ExportConstObjectMatch(line) ==
    LET r    == AfterWord(AfterWord(lstrip(line), "export"), "const")
        eq   == IF NameAt(r) # <<>> THEN lstrip(Tail(r)) ELSE <<>>
        open == IF eq # <<>> /\ Head(eq) = "=" THEN lstrip(Tail(eq)) ELSE <<>>
    IN  IF open # <<>> /\ Head(open) = "{" /\ strip(Tail(open)) = <<>>
        THEN NameAt(r)
        ELSE <<>>

\* ENUM_MEMBER_RE.match(s): the name, or <<>>
EnumMemberMatch(s) ==
    LET r    == lstrip(s)
        rest == IF NameAt(r) # <<>> THEN lstrip(Tail(r)) ELSE <<>>
    IN  IF rest # <<>> /\ Head(rest) \in {"=", ","} THEN NameAt(r) ELSE <<>>

\* (?P<name>[A-Za-z_]\w*)\s*(?:\?|)\s*(?::|\() at the head of r
MemberTail(r) ==
    LET a == IF NameAt(r) # <<>> THEN lstrip(Tail(r)) ELSE <<>>
        b == IF a # <<>> /\ Head(a) = "?" THEN lstrip(Tail(a)) ELSE a
    IN  IF b # <<>> /\ Head(b) \in {":", "("} THEN NameAt(r) ELSE <<>>

\* \s*(?:readonly\s+)? and then the member, the longer alternative first
MemberAfterModifier(r) ==
    LET r1 == lstrip(r)
        ro == AfterWord(r1, "readonly")
    IN  IF MemberTail(ro) # <<>> THEN MemberTail(ro) ELSE MemberTail(r1)

\* MEMBER_RE.match(s): the name, or <<>>; the optional modifier is tried first
MemberMatch(s) ==
    LET r   == lstrip(s)
        mod == AfterModifier(r)
    IN  IF mod # <<>> /\ MemberAfterModifier(Tail(mod)) # <<>>
        THEN MemberAfterModifier(Tail(mod))
        ELSE MemberAfterModifier(r)

\* None is <<>> for the container, the kind and the result
_infer_doc_id(signature, container_name, container_kind) ==
    LET s         == strip(signature)
        container == _resolve_doc_container(container_name)
    IN  IF ExportConstMatch(s) # <<>> THEN ExportConstMatch(s)
        ELSE IF ExportNamedMatch(s) # <<>> THEN ExportNamedMatch(s)
        ELSE IF container = <<>> THEN <<>>
        ELSE IF container_kind = <<"enum">> /\ EnumMemberMatch(s) # <<>>
        THEN container \o <<".">> \o EnumMemberMatch(s)
        ELSE IF MemberMatch(s) # <<>>
        THEN container \o <<".">> \o MemberMatch(s)
        ELSE <<>>

-----------------------------------------------------------------------------
(* harvest-docs.py: file scanning and seeding. *)

\* re.finditer(r"/\*\*(.*?)\*/", text, re.DOTALL) from offset pos on: for each
\* match its start, its end and group 1
RECURSIVE DocBlockFinditer(_, _)
DocBlockFinditer(s, pos) ==
    LET opens == {i \in (pos + 1)..Len(s) : s[i] = "/**"}
    IN  IF opens = {} THEN <<>>
        ELSE LET o      == Min(opens)
                 closes == {j \in (o + 1)..Len(s) : s[j] = "*/"}
             IN  IF closes = {} THEN <<>>
                 ELSE LET c == Min(closes)
                      IN  << [start |-> o - 1, end |-> c, inner |-> SubSeq(s, o + 1, c - 1)] >>
                          \o DocBlockFinditer(s, c)

\* text[:end_pos].count("\n")
CountNewlines(s, end_pos) == Cardinality({i \in 1..Min({end_pos, Len(s)}) : s[i] = NL})

\* BLOCK_COMMENT_START_RE, BLOCK_COMMENT_END_RE, LINE_COMMENT_RE on a stripped
\* line
BlockCommentStart(s) == s # <<>> /\ Head(s) \in {"/*", "/**"}
BlockCommentEnd(s) == s # <<>> /\ Last(s) = "*/"
LineComment(s) == s # <<>> /\ Head(s) = "//"
\* s == "*/" or (s.endswith("*/") and not s.rstrip("*/").strip())
ClosingMarker(s) ==
    \/ s = <<"*/">>
    \/ /\ s # <<>> /\ Last(s) = "*/"
       /\ strip(RStripChars(s, {"*/", "/**", "/*", "//", "*", "/"})) = <<>>

NoSignature == [signature |-> <<>>, line_no |-> -1]

\* the loop of _find_next_signature from line i (0-based) on
RECURSIVE SignatureScan(_, _, _)
SignatureScan(src_lines, i, in_block_comment) ==
    IF i >= Len(src_lines) THEN NoSignature
    ELSE LET raw == src_lines[i + 1]
             s   == strip(raw)
         IN  IF s = <<>> THEN SignatureScan(src_lines, i + 1, in_block_comment)
             ELSE IF in_block_comment
             THEN SignatureScan(src_lines, i + 1, ~BlockCommentEnd(s))
             ELSE IF BlockCommentStart(s) /\ ~BlockCommentEnd(s)
             THEN SignatureScan(src_lines, i + 1, TRUE)
             ELSE IF LineComment(s) THEN SignatureScan(src_lines, i + 1, FALSE)
             ELSE IF ClosingMarker(s) THEN SignatureScan(src_lines, i + 1, FALSE)
             ELSE [signature |-> rstrip(raw), line_no |-> i]

_find_next_signature(s, end_pos) ==
    SignatureScan(splitlines(s), CountNewlines(s, end_pos) + 1, FALSE)

\* containers_by_line: (idx, name, kind) for each container line, idx 0-based
containers_by_line(src_lines) ==
    LET entry(i) ==
            IF ExportContainerMatch(src_lines[i]) # <<>>
            THEN << [li   |-> i - 1,
                     name |-> <<ExportContainerMatch(src_lines[i])[1]>>,
                     kind |-> <<ExportContainerMatch(src_lines[i])[2]>>] >>
            ELSE IF ExportConstObjectMatch(src_lines[i]) # <<>>
            THEN << [li   |-> i - 1,
                     name |-> ExportConstObjectMatch(src_lines[i]),
                     kind |-> <<"const">>] >>
            ELSE <<>>
    IN  Flatten([i \in 1..Len(src_lines) |-> entry(i)])

\* the last container declared at or before the signature line
container_for_signature(containers, sig_line_no) ==
    LET at == {k \in 1..Len(containers) : containers[k].li <= sig_line_no}
    IN  IF sig_line_no < 0 \/ at = {} THEN [name |-> <<>>, kind |-> <<>>]
        ELSE [name |-> containers[Max(at)].name, kind |-> containers[Max(at)].kind]

\* doc_id.replace("/", "_") + ".yaml"
_sanitize_filename(id) ==
    [i \in 1..Len(id) |-> IF id[i] = "/" THEN "_" ELSE id[i]] \o <<".yaml">>

\* a dict with one more key
WithKey(d, k, v) == [x \in DOMAIN d \cup {k} |-> IF x = k THEN v ELSE d[x]]

\* str(ts_file): the tree under TS_ROOT holds one file
TsFile == <<"src", "/", "index", ".ts">>

\* seed_docs: the YAML payload of one doc block
build_payload(id, sig, ex) ==
    LET description == strip(join(ex.desc))
        examples    == ExamplesPayload(ex.examples)
        p0 == [id |-> id, source_file |-> TsFile, signature |-> strip(sig)]
        p1 == IF ex.categories # <<>> THEN WithKey(p0, "categories", ex.categories) ELSE p0
        p2 == IF description # <<>> THEN WithKey(p1, "description", description) ELSE p1
    IN  IF DOMAIN examples # {} THEN WithKey(p2, "examples", examples) ELSE p2

\* d.get(k) as a truth value
Truthy(d, k) == k \in DOMAIN d /\ d[k] # <<>>

\* a slip: an example the payload lacks is not taken over
merge_example_skips_absent(examples, ex_key, ex_val) ==
    IF ex_key \notin DOMAIN examples
    THEN examples
    ELSE LET existing_code == IF Truthy(ex_val, "code") THEN ex_val.code ELSE <<>>
             mine          == examples[ex_key]
             new_code      == IF Truthy(mine, "code") THEN mine.code ELSE <<>>
             merged_code   == [l \in DOMAIN existing_code \cup DOMAIN new_code |->
                                 IF l \in DOMAIN new_code THEN new_code[l]
                                 ELSE existing_code[l]]
         IN  WithKey(examples, ex_key, WithKey(mine, "code", merged_code))

\* a slip: the existing code wins for a language both have
merge_example_existing_wins(examples, ex_key, ex_val) ==
    IF ex_key \notin DOMAIN examples
    THEN WithKey(examples, ex_key, ex_val)
    ELSE LET existing_code == IF Truthy(ex_val, "code") THEN ex_val.code ELSE <<>>
             mine          == examples[ex_key]
             new_code      == IF Truthy(mine, "code") THEN mine.code ELSE <<>>
             merged_code   == [l \in DOMAIN existing_code \cup DOMAIN new_code |->
                                 IF l \in DOMAIN existing_code THEN existing_code[l]
                                 ELSE new_code[l]]
         IN  WithKey(examples, ex_key, WithKey(mine, "code", merged_code))

\* seed_docs: one example key of the existing document merged into the payload
merge_example(examples, ex_key, ex_val) ==
    IF ex_key \notin DOMAIN examples
    THEN WithKey(examples, ex_key, ex_val)
    ELSE LET existing_code == IF Truthy(ex_val, "code") THEN ex_val.code ELSE <<>>
             mine          == examples[ex_key]
             new_code      == IF Truthy(mine, "code") THEN mine.code ELSE <<>>
             merged_code   == [l \in DOMAIN existing_code \cup DOMAIN new_code |->
                                 IF l \in DOMAIN new_code THEN new_code[l]
                                 ELSE existing_code[l]]
             titled        == IF "title" \in DOMAIN mine THEN mine
                              ELSE WithKey(mine, "title",
                                           IF "title" \in DOMAIN ex_val THEN ex_val.title
                                           ELSE <<>>)
         IN  WithKey(examples, ex_key, WithKey(titled, "code", merged_code))

\* a slip: the examples of the existing document are not merged
merge_existing_fresh_examples(payload, existing) ==
    IF "description" \notin DOMAIN payload /\ Truthy(existing, "description")
    THEN WithKey(payload, "description", existing.description)
    ELSE payload

\* a slip: the existing description is kept although a new one was parsed
merge_existing_keeps_description(payload, existing) ==
    LET p1 == IF Truthy(existing, "description")
              THEN WithKey(payload, "description", existing.description)
              ELSE payload
        mine == IF "examples" \in DOMAIN p1 THEN p1.examples ELSE <<>>
        keys == IF Truthy(existing, "examples") THEN DOMAIN existing.examples ELSE {}
        RECURSIVE MergeAll(_, _)
        MergeAll(acc, ks) ==
            IF ks = {} THEN acc
            ELSE LET k == CHOOSE x \in ks : TRUE
                 IN  MergeAll(merge_example(acc, k, existing.examples[k]), ks \ {k})
    IN  IF keys = {} THEN p1 ELSE WithKey(p1, "examples", MergeAll(mine, keys))

\* seed_docs: the payload merged with the existing document of its path
merge_existing(payload, existing) ==
    LET p1 == IF "description" \notin DOMAIN payload /\ Truthy(existing, "description")
              THEN WithKey(payload, "description", existing.description)
              ELSE payload
        mine == IF "examples" \in DOMAIN p1 THEN p1.examples ELSE <<>>
        keys == IF Truthy(existing, "examples") THEN DOMAIN existing.examples ELSE {}
        RECURSIVE MergeAll(_, _)
        MergeAll(acc, ks) ==
            IF ks = {} THEN acc
            ELSE LET k == CHOOSE x \in ks : TRUE
                 IN  MergeAll(merge_example(acc, k, existing.examples[k]), ks \ {k})
    IN  IF keys = {} THEN p1 ELSE WithKey(p1, "examples", MergeAll(mine, keys))

\* limit: None
NoLimit == -1

\* seed_docs: the body of the loop over the doc blocks of the file
seed_block(st, m, s, containers, limit) ==
    With(_find_next_signature(s, m.end), LAMBDA sig :
    With(container_for_signature(containers, sig.line_no), LAMBDA ctr :
    With(_infer_doc_id(sig.signature, ctr.name, ctr.kind), LAMBDA id :
    With(extract_description_examples_categories(normalize_doc_block(m.inner)), LAMBDA ex :
    With(_sanitize_filename(id), LAMBDA path :
    With(build_payload(id, sig.signature, ex), LAMBDA payload :
        IF st.stop THEN st
        ELSE IF sig.signature = <<>> \/ id = <<>> \/ id \in st.seen_doc_ids THEN st
        ELSE IF "internal" \in ex.flags \/ "hidden" \in ex.flags
        THEN [st EXCEPT !.flagged = @ \cup {path}]
        ELSE [st EXCEPT !.dir = WithKey(@, path,
                                        IF path \in DOMAIN st.dir
                                        THEN merge_existing(payload, st.dir[path])
                                        ELSE payload),
                        !.fresh = WithKey(@, path, payload),
                        !.generated_paths = @ \cup {path},
                        !.seen_doc_ids = @ \cup {id},
                        !.written = @ + 1,
                        !.stop = limit # NoLimit /\ st.written + 1 >= limit]))))))

\* seed_docs: the loop over the doc blocks ms of the file
RECURSIVE seed_blocks(_, _, _, _, _)
seed_blocks(st, ms, s, containers, limit) ==
    IF ms = <<>> THEN st
    ELSE With(seed_block(st, Head(ms), s, containers, limit),
              LAMBDA st2 : seed_blocks(st2, Tail(ms), s, containers, limit))

\* a slip: the prune step is left out
seed_docs_never_prunes(dir, s, limit, prune) ==
    With(DocBlockFinditer(s, 0), LAMBDA ms :
    With(containers_by_line(splitlines(s)), LAMBDA containers :
        seed_blocks([dir |-> dir, fresh |-> <<>>, generated_paths |-> {},
                     flagged |-> {}, seen_doc_ids |-> {}, written |-> 0,
                     stop |-> FALSE],
                    ms, s, containers, limit)))

\* seed_docs over the file s: the state after the loop and the prune
seed_docs(dir, s, limit, prune) ==
    With(DocBlockFinditer(s, 0), LAMBDA ms :
    With(containers_by_line(splitlines(s)), LAMBDA containers :
    With(seed_blocks([dir |-> dir, fresh |-> <<>>, generated_paths |-> {},
                      flagged |-> {}, seen_doc_ids |-> {}, written |-> 0,
                      stop |-> FALSE],
                     ms, s, containers, limit), LAMBDA st :
        [st EXCEPT !.dir = IF prune
                           THEN [p \in DOMAIN st.dir \cap st.generated_paths |-> st.dir[p]]
                           ELSE st.dir])))

-----------------------------------------------------------------------------
(* The inputs the model draws from. *)

\* sequences over S of length lo..hi
SeqsOf(S, lo, hi) == UNION {[1..n -> S] : n \in lo..hi}

IdA == <<"A">>
IdB == <<"B">>
LangObjc == <<"objc">>
LangTs == <<"ts">>

YamlPath(doc_id) == <<"docs-db", "/">> \o doc_id \o <<".yaml">>

\* a stored document without examples
DocHello(doc_id) ==
    [description |-> <<"hello">>,
     examples    |-> <<>>,
     yaml_path   |-> YamlPath(doc_id)]

\* a stored document with one placeholder and its example
DocWithExample(doc_id) ==
    [description |-> <<"a", NL, "@example", SP, "k">>,
     examples    |-> (<<"k">> :> [title |-> <<"T">>, code |-> (LangObjc :> <<"c1">>)]),
     yaml_path   |-> YamlPath(doc_id)]

Stores ==
    { <<>>,
      (IdA :> DocHello(IdA)),
      (IdA :> DocWithExample(IdA)),
      (IdA :> DocHello(IdA)) @@ (IdB :> DocHello(IdB)) }

Indents == {[i \in 1..n |-> SP] : n \in 0..MaxIndent}

\* a comment block as it stands in a header: every line carries the indent
BlockText(indent, body) ==
    join(<< indent \o <<"/**">> >>
         \o [i \in 1..Len(body) |-> indent \o <<SP, "*", SP>> \o body[i]]
         \o << indent \o <<SP, "*/">> >>)

BlockBodies ==
    { << DocIdMarker(IdA), <<"hello">> >>,
      << DocIdMarker(IdA), <<"old">> >>,
      << DocIdMarker(IdB), <<"hello">> >>,
      << <<"old">> >> }

\* what follows the closing delimiter, before the declaration
Afters == { <<NL>>, <<SP>> }

Declaration == <<"int", SP, "x", ";", NL>>

\* the blocks of one file share the file's nesting level and layout
SourceItems(ind, after) ==
    { BlockText(ind, body) \o after \o Declaration : body \in BlockBodies }

SourceTexts ==
    UNION { { Flatten(items) : items \in SeqsOf(SourceItems(ind, after), 1, MaxBlocks) } :
            ind \in Indents, after \in Afters }

NoDoc == [description |-> <<>>, examples |-> <<>>, yaml_path |-> <<>>]

\* the lines a description is made of
DescLineChoices ==
    { <<"hello">>, <<>>, <<"@example", SP, "k">>, <<"@example", SP, "z">> }

Descriptions == { join(ls) : ls \in SeqsOf(DescLineChoices, 0, MaxDescLines) }

\* code with trailing whitespace on a line, a blank line, an indented line
\* and a final newline
CodeRagged == <<"c1", SP, NL, NL, SP, SP, "c2", NL>>
CodeClean == <<"c1", NL, SP, "c2">>

ExampleChoicesK ==
    { [title |-> <<"T">>, code |-> (LangObjc :> CodeClean)],
      [title |-> <<"T">>, code |-> (LangObjc :> CodeRagged)],
      [title |-> <<>>,    code |-> (LangTs :> <<"c2">>)],
      [title |-> <<"T">>, code |-> (LangObjc :> <<SP, NL>>) @@ (LangTs :> <<"c2">>)] }

ExampleChoicesZ ==
    { [title |-> <<"Z">>, code |-> (LangObjc :> <<"x">>)],
      [title |-> <<"T">>, code |-> (LangTs :> <<"c2">>)] }

ExampleMaps ==
    { <<>> }
    \cup { (<<"k">> :> ek) : ek \in ExampleChoicesK }
    \cup { (<<"z">> :> ez) : ez \in ExampleChoicesZ }
    \cup { (<<"k">> :> ek) @@ (<<"z">> :> ez) :
             ek \in ExampleChoicesK, ez \in ExampleChoicesZ }

RenderDocs ==
    { [description |-> dsc, examples |-> exs, yaml_path |-> YamlPath(IdA)] :
        dsc \in Descriptions, exs \in ExampleMaps }

\* the identifier and indentation the renderer is called with
RenderId == IdA
RenderIndent == <<SP>>
RenderStyle == detect_docblock_style(<<>>, RenderIndent)

-----------------------------------------------------------------------------
(* The synchronize command in write mode, run repeatedly over one file. *)

Init ==
    /\ text \in SourceTexts
    /\ docs \in Stores
    /\ strict \in BOOLEAN
    /\ example_lang = LangObjc
    /\ original = text
    /\ replaced_ids = <<>>
    /\ missing_ids = <<>>
    /\ runs = 0
    /\ doc = NoDoc
    /\ doc_lang = LangObjc
    /\ rendered = <<>>
    /\ redoc = NoDoc
    /\ rerendered = <<>>
    /\ pc = "idle"
    /\ SeedIdle /\ InferIdle /\ MainIdle /\ ExtractIdle /\ InsertIdle

\* one run of main() over the file: read, apply_docs_to_text, write
Synchronize ==
    /\ runs < MaxRuns
    /\ LET r == apply_docs_to_text(text, docs, strict, example_lang)
       IN  /\ original' = text
           /\ text' = r.text
           /\ replaced_ids' = r.replaced
           /\ missing_ids' = r.missing
    /\ runs' = runs + 1
    /\ UNCHANGED <<docs, strict, example_lang>>
    /\ UNCHANGED <<renderVars, seedVars, inferVars, mainVars, extractVars, insertVars>>

Next == Synchronize

Spec == Init /\ [][Next]_vars

-----------------------------------------------------------------------------
(* Claims about the synchronization driver. *)

BlockIds(blocks) == [i \in 1..Len(blocks) |-> blocks[i].doc_id]
BlockIndents(blocks) == [i \in 1..Len(blocks) |-> blocks[i].indent]

RECURSIVE SelectBlocks(_, _, _)
SelectBlocks(blocks, store, resolved) ==
    IF blocks = <<>> THEN <<>>
    ELSE IF (Head(blocks).doc_id \in DOMAIN store) = resolved
    THEN <<Head(blocks)>> \o SelectBlocks(Tail(blocks), store, resolved)
    ELSE SelectBlocks(Tail(blocks), store, resolved)

\* the located blocks of s whose identifier the store lacks / holds
UnresolvedBlocks(s, store) == SelectBlocks(find_docblocks_with_ids(s), store, FALSE)
ResolvedBlocks(s, store) == SelectBlocks(find_docblocks_with_ids(s), store, TRUE)

BlockTexts(s, blocks) == [i \in 1..Len(blocks) |-> Slice(s, blocks[i].start, blocks[i].end)]

\* what the driver writes over a resolved block: the rendering and the
\* block's captured trailing whitespace
Replacement(blk, store, lang) ==
    render_docblock(store[blk.doc_id], blk.doc_id, blk.indent, lang,
                    detect_docblock_style(<<>>, blk.indent))
    \o blk.trailing

\* the identifiers, in text order, of the resolved blocks of s whose text
\* differs from what the driver writes over them
RECURSIVE DifferingIds(_, _, _, _)
DifferingIds(s, blocks, store, lang) ==
    IF blocks = <<>> THEN <<>>
    ELSE LET blk == Head(blocks)
         IN  (IF Slice(s, blk.start, blk.end) # Replacement(blk, store, lang)
              THEN <<blk.doc_id>> ELSE <<>>)
             \o DifferingIds(s, Tail(blocks), store, lang)

\* C1 (as claimed): Synchronization no-op: the changed-identifier list of a
\* second run over the output of the first run is empty.
C1_SecondRunReportsNoChange ==
    runs >= 2 => replaced_ids = <<>>

\* C2 (as claimed): repeated synchronization reaches a fixed point on the
\* text: a run over the output of a run returns that output, and a run leaves
\* the whitespace before each block's opening delimiter as it was.
C2_TextFixedPoint ==
    /\ runs >= 2 => text = original
    /\ runs >= 1 => BlockIndents(find_docblocks_with_ids(text))
                    = BlockIndents(find_docblocks_with_ids(original))

\* C3 (as claimed): an identifier is reported as changed if and only if the
\* output text differs from the input text at its block.
C3_ChangedIffDiffers ==
    runs >= 1 =>
        /\ replaced_ids = DifferingIds(original, ResolvedBlocks(original, docs),
                                       docs, example_lang)
        /\ (replaced_ids # <<>>) <=> (text # original)

\* C4: every block whose identifier the store lacks is recorded as unresolved
\* and its text is left byte-identical, strict or not, and every other block
\* of the file is still processed (its text is the rendering, less the
\* indentation that precedes the opening delimiter, plus the trailing
\* whitespace).
C4_UnresolvedLeftUntouched ==
    runs >= 1 =>
        LET before == UnresolvedBlocks(original, docs)
            after  == UnresolvedBlocks(text, docs)
            done   == ResolvedBlocks(text, docs)
            todo   == ResolvedBlocks(original, docs)
        IN  /\ missing_ids = BlockIds(before)
            /\ BlockTexts(text, after) = BlockTexts(original, before)
            /\ Len(done) = Len(todo)
            /\ \A i \in 1..Len(todo) :
                   LET full == Replacement(todo[i], docs, example_lang)
                   IN  Slice(text, done[i].start, done[i].end)
                       = Slice(full, Len(todo[i].indent), Len(full))

\* C4 witness: a strict run met an unresolved block and replaced another block.
C4_Witness ==
    /\ runs >= 1
    /\ strict
    /\ missing_ids # <<>>
    /\ replaced_ids # <<>>

-----------------------------------------------------------------------------
(* The renderer on its own: render a document, re-extract a document from *)
(* the rendered block, render that one again.                             *)

RenderInit ==
    /\ doc \in RenderDocs
    /\ doc_lang \in {LangObjc, LangTs}
    /\ rendered = <<>>
    /\ redoc = NoDoc
    /\ rerendered = <<>>
    /\ pc = "start"
    /\ text = <<>>
    /\ docs = <<>>
    /\ strict = FALSE
    /\ example_lang = LangObjc
    /\ original = <<>>
    /\ replaced_ids = <<>>
    /\ missing_ids = <<>>
    /\ runs = 0
    /\ SeedIdle /\ InferIdle /\ MainIdle /\ ExtractIdle /\ InsertIdle

Render ==
    /\ pc = "start"
    /\ rendered' = render_docblock(doc, RenderId, RenderIndent, doc_lang, RenderStyle)
    /\ pc' = "rendered"
    /\ UNCHANGED <<doc, doc_lang, redoc, rerendered>>
    /\ UNCHANGED <<syncVars, seedVars, inferVars, mainVars, extractVars, insertVars>>

\* seed_docs over the rendered block: normalize, extract, build the document
Extract ==
    /\ pc = "rendered"
    /\ redoc' = parse_doc_block(rendered, doc.yaml_path)
    /\ pc' = "extracted"
    /\ UNCHANGED <<doc, doc_lang, rendered, rerendered>>
    /\ UNCHANGED <<syncVars, seedVars, inferVars, mainVars, extractVars, insertVars>>

Rerender ==
    /\ pc = "extracted"
    /\ rerendered' = render_docblock(redoc, RenderId, RenderIndent, doc_lang, RenderStyle)
    /\ pc' = "done"
    /\ UNCHANGED <<doc, doc_lang, rendered, redoc>>
    /\ UNCHANGED <<syncVars, seedVars, inferVars, mainVars, extractVars, insertVars>>

RenderNext == Render \/ Extract \/ Rerender

RenderSpec == RenderInit /\ [][RenderNext]_vars

-----------------------------------------------------------------------------
(* Claims about the renderer. *)

Prefix == RenderStyle.line_prefix
DescLinesOf(d) == splitlines(StripChars(d.description, {NL}))
PlaceholderIdx(d) == {i \in DOMAIN DescLinesOf(d) : PlaceholderMatch(DescLinesOf(d)[i])}
KeyAt(d, i) == PlaceholderKey(DescLinesOf(d)[i])
\* the rank of placeholder line i among the placeholder lines
Ordinal(d, i) == Cardinality({j \in PlaceholderIdx(d) : j <= i})

\* the rendered lines that are example headings
HeadingIdx(lines) ==
    {h \in DOMAIN lines :
        /\ Len(lines[h]) > Len(Prefix)
        /\ SubSeq(lines[h], 1, Len(Prefix) + 1) = Prefix \o <<"@example">>}
NthHeading(lines, n) ==
    CHOOSE h \in HeadingIdx(lines) : Cardinality({g \in HeadingIdx(lines) : g <= h}) = n
\* lines[h .. h+n-1], or <<>> when the block would run past the end
LinesFrom(lines, h, n) == IF h + n - 1 <= Len(lines) THEN SubSeq(lines, h, h + n - 1) ELSE <<>>

HeadingLine(title) == Prefix \o <<"@example", SP>> \o title
GivenTitle(d, k) == IF d.examples[k].title = <<>> THEN <<"Example">> ELSE d.examples[k].title
HasCode(d, k, lang) ==
    /\ k \in DOMAIN d.examples
    /\ lang \in DOMAIN d.examples[k].code
    /\ strip(d.examples[k].code[lang]) # <<>>

MissingStubLine(k) == Prefix \o <<"//", SP, "MISSING", SP, "example", SP>> \o k

MissingStub(d, k, lang) ==
    << HeadingLine(<<"Example">>),
       Prefix \o <<FENCE>> \o lang,
       MissingStubLine(k),
       Prefix \o <<"//", SP, "Filename:", SP>> \o RenderId \o <<".yaml">>,
       Prefix \o <<FENCE>> >>

WarningStubLine(k, lang) ==
    Prefix \o <<"//", SP, "WARNING:", SP, SP, "No example block found for lang", SP, "\"">>
           \o lang \o <<"\"", SP, "for", SP>> \o k
WarningStub(d, k, lang) ==
    << HeadingLine(GivenTitle(d, k)),
       Prefix \o <<FENCE>> \o lang,
       WarningStubLine(k, lang),
       Prefix \o <<"//", SP, "Filename:", SP, "docs-db", "/">> \o RenderId \o <<".yaml">>,
       Prefix \o <<FENCE>> >>

\* C5: a placeholder whose key the examples map lacks renders, at the
\* placeholder's position (the n-th placeholder gives the n-th heading), as
\* the MISSING stub; no WARNING stub is emitted there.
C5_MissingKeyStub ==
    pc # "start" =>
        \A i \in PlaceholderIdx(doc) :
            KeyAt(doc, i) \notin DOMAIN doc.examples =>
                LET L == splitlines(rendered)
                    n == Ordinal(doc, i)
                IN  /\ Cardinality(HeadingIdx(L)) >= n
                    /\ LinesFrom(L, NthHeading(L, n), 5)
                       = MissingStub(doc, KeyAt(doc, i), doc_lang)
                    /\ \A j \in DOMAIN L : L[j] # WarningStubLine(KeyAt(doc, i), doc_lang)

\* C5 witness: a rendered document with a placeholder for an absent key after
\* a placeholder for a present one.
C5_Witness ==
    /\ pc = "rendered"
    /\ \E i, j \in PlaceholderIdx(doc) :
           /\ i < j
           /\ KeyAt(doc, i) \in DOMAIN doc.examples
           /\ KeyAt(doc, j) \notin DOMAIN doc.examples

\* the code body as the renderer lays it out: trailing newlines dropped, each
\* line right-trimmed after the prefix
TrimmedBody(code) ==
    LET body == splitlines(RStripChars(code, {NL}))
    IN  [j \in 1..Len(body) |-> rstrip(Prefix \o body[j])]
\* the code body exactly, line for line
ExactBody(code) ==
    LET body == splitlines(code)
    IN  [j \in 1..Len(body) |-> Prefix \o body[j]]

Fenced(d, k, lang, body) ==
    << HeadingLine(GivenTitle(d, k)), Prefix \o <<FENCE>> \o lang >>
    \o body
    \o << Prefix \o <<FENCE>> >>

\* the placeholder lines whose key has an example; with / without code in lang
PresentIdx(d) == {i \in PlaceholderIdx(d) : KeyAt(d, i) \in DOMAIN d.examples}

\* C6: a placeholder whose key exists but has no, or only blank, code for the
\* requested language renders as the WARNING stub naming that language,
\* directly followed by the blank separator: no MISSING stub, and no code of
\* another language of the example.
C6_WrongLanguageStub ==
    pc # "start" =>
        \A i \in PresentIdx(doc) :
            ~HasCode(doc, KeyAt(doc, i), doc_lang) =>
                LET L == splitlines(rendered)
                    n == Ordinal(doc, i)
                IN  /\ Cardinality(HeadingIdx(L)) >= n
                    /\ LinesFrom(L, NthHeading(L, n), 6)
                       = WarningStub(doc, KeyAt(doc, i), doc_lang)
                         \o <<RenderStyle.blank_line>>
                    /\ \A j \in DOMAIN L : L[j] # MissingStubLine(KeyAt(doc, i))

\* C6 witness: the referenced example has code, but only in another language.
C6_Witness ==
    /\ pc = "rendered"
    /\ \E i \in PresentIdx(doc) :
           /\ ~HasCode(doc, KeyAt(doc, i), doc_lang)
           /\ \E l \in DOMAIN doc.examples[KeyAt(doc, i)].code :
                  HasCode(doc, KeyAt(doc, i), l)

\* C7 (as claimed): a placeholder whose key has code in the requested
\* language renders as a fenced region holding that exact code body, line for
\* line, with no MISSING or WARNING stub for the key.
C7_ExactCodeBody ==
    pc # "start" =>
        \A i \in PresentIdx(doc) :
            HasCode(doc, KeyAt(doc, i), doc_lang) =>
                LET L    == splitlines(rendered)
                    n    == Ordinal(doc, i)
                    body == ExactBody(doc.examples[KeyAt(doc, i)].code[doc_lang])
                IN  /\ Cardinality(HeadingIdx(L)) >= n
                    /\ LinesFrom(L, NthHeading(L, n), Len(body) + 3)
                       = Fenced(doc, KeyAt(doc, i), doc_lang, body)
                    /\ \A j \in DOMAIN L :
                           /\ L[j] # MissingStubLine(KeyAt(doc, i))
                           /\ L[j] # WarningStubLine(KeyAt(doc, i), doc_lang)

\* C7 (amended): the fenced region holds the code body with its trailing
\* newlines dropped and each line right-trimmed of whitespace, line for line
\* and in order, with no MISSING or WARNING stub for the key.
C7_RightTrimmedCodeBody ==
    pc # "start" =>
        \A i \in PresentIdx(doc) :
            HasCode(doc, KeyAt(doc, i), doc_lang) =>
                LET L    == splitlines(rendered)
                    n    == Ordinal(doc, i)
                    body == TrimmedBody(doc.examples[KeyAt(doc, i)].code[doc_lang])
                IN  /\ Cardinality(HeadingIdx(L)) >= n
                    /\ LinesFrom(L, NthHeading(L, n), Len(body) + 3)
                       = Fenced(doc, KeyAt(doc, i), doc_lang, body)
                    /\ \A j \in DOMAIN L :
                           /\ L[j] # MissingStubLine(KeyAt(doc, i))
                           /\ L[j] # WarningStubLine(KeyAt(doc, i), doc_lang)

\* C7 witness: a rendered placeholder whose code has several lines, one of
\* them indented.
C7_Witness ==
    /\ pc = "rendered"
    /\ \E i \in PresentIdx(doc) :
           /\ HasCode(doc, KeyAt(doc, i), doc_lang)
           /\ doc.examples[KeyAt(doc, i)].code[doc_lang] = CodeClean

\* the keys of d in ascending order
IsAscending(ks) == \A i, j \in DOMAIN ks : i < j => StrLess(ks[i], ks[j])
AscendingKeys(d) ==
    CHOOSE ks \in [1..Cardinality(DOMAIN d.examples) -> DOMAIN d.examples] :
        Range(ks) = DOMAIN d.examples /\ IsAscending(ks)

\* d with one placeholder line per key of ks appended to its description
WithPlaceholders(d, ks) ==
    [d EXCEPT !.description =
        join(DescLinesOf(d) \o [i \in 1..Len(ks) |-> <<"@example", SP>> \o ks[i]])]

\* C8: without placeholders and with examples, every example is rendered
\* after the description in ascending key order by the rules of in-place
\* rendering (the block is the in-place rendering of the description followed
\* by one placeholder per key, less the final blank), and no blank doc line
\* stands immediately before the closing line.
C8_TrailingExamples ==
    (pc # "start" /\ PlaceholderIdx(doc) = {} /\ DOMAIN doc.examples # {}) =>
        LET L       == splitlines(rendered)
            inplace == render_lines(WithPlaceholders(doc, AscendingKeys(doc)),
                                    RenderId, RenderIndent, doc_lang, RenderStyle)
        IN  /\ L = SubSeq(inplace, 1, Len(inplace) - 2) \o <<RenderStyle.close_line>>
            /\ inplace[Len(inplace) - 1] = RenderStyle.blank_line
            /\ L[Len(L) - 1] # RenderStyle.blank_line
            /\ Cardinality(HeadingIdx(L)) = Cardinality(DOMAIN doc.examples)

\* C8 witness: a description without placeholders rendered with two examples.
C8_Witness ==
    /\ pc = "rendered"
    /\ PlaceholderIdx(doc) = {}
    /\ DescLinesOf(doc) # <<>>
    /\ Cardinality(DOMAIN doc.examples) = 2

\* the rendering of example k: its heading, then its code or its stub
ExampleShown(d, k, lang, lines) ==
    LET blk == IF HasCode(d, k, lang)
               THEN Fenced(d, k, lang, TrimmedBody(d.examples[k].code[lang]))
               ELSE WarningStub(d, k, lang)
    IN  \E h \in DOMAIN lines : LinesFrom(lines, h, Len(blk)) = blk

\* C9 (as claimed): every key of the examples map has its heading and its code
\* or stub in the rendered block, whatever placeholders the description holds.
C9_NoExampleDiscarded ==
    pc # "start" =>
        \A k \in DOMAIN doc.examples : ExampleShown(doc, k, doc_lang, splitlines(rendered))

\* C10 (as claimed): rendering a document, re-extracting a document from the
\* rendered block and rendering that one with the same identifier and language
\* gives output byte-identical to the first rendering.
C10_RenderExtractIdempotent ==
    pc = "done" => rerendered = rendered

-----------------------------------------------------------------------------
(* The seed command: passes of seed_docs over a changing TypeScript file   *)
(* and a store that may already hold documents.                            *)

MaxPasses == 2

\* a doc block of the TypeScript file, indented inside its container
TsBlock(body_lines) ==
    <<SP, SP, "/**", NL>>
    \o Flatten([i \in 1..Len(body_lines) |->
                  rstrip(<<SP, SP, SP, "*", SP>> \o body_lines[i]) \o <<NL>>])
    \o <<SP, SP, SP, "*/", NL>>

BodyHello == << <<"hello">> >>
BodyExampleTs ==
    << <<"hello">>, <<"@example">>, <<FENCE, "ts">>, <<"c1">>, <<FENCE>> >>
BodyExampleObjc ==
    << <<"@example">>, <<FENCE, "objc">>, <<"c2">>, <<FENCE>> >>
BodyCategory == << <<"@category", SP, "c">> >>
BodyInternal == << <<"@internal">>, <<"hello">> >>

SigX == <<SP, SP, "x", ":", SP, "string", ";", NL>>
SigY == <<SP, SP, "y", ":", SP, "string", ";", NL>>
ContainerOpen == <<"export", SP, "interface", SP, "Foo", SP, "{", NL>>
ContainerClose == <<"}", NL>>

\* the contents the file may have at a pass: a documented member x, and
\* possibly a documented member y after it
TsTexts ==
    { ContainerOpen \o TsBlock(bx) \o SigX \o ContainerClose :
        bx \in {BodyHello, BodyExampleTs, BodyExampleObjc, BodyCategory, BodyInternal} }
    \cup
    { ContainerOpen \o TsBlock(bx) \o SigX \o TsBlock(by) \o SigY \o ContainerClose :
        bx \in {BodyHello, BodyExampleTs, BodyExampleObjc, BodyCategory, BodyInternal},
        by \in {BodyHello, BodyInternal} }

PathX == _sanitize_filename(<<"Foo", ".", "x">>)
PathY == _sanitize_filename(<<"Foo", ".", "y">>)

\* a document of an earlier pass, with examples in other languages added by
\* hand
PriorX ==
    [id          |-> <<"Foo", ".", "x">>,
     source_file |-> TsFile,
     signature   |-> <<"x", ":", SP, "string", ";">>,
     categories  |-> << <<"a">> >>,
     description |-> <<"old">>,
     examples    |-> (<<"example", "-", "1">> :>
                        [title |-> <<"T">>,
                         code  |-> (LangObjc :> <<"x">>) @@ (LangTs :> <<"old">>)])
                     @@ (<<"z">> :> [title |-> <<"Z">>, code |-> (LangObjc :> <<"x">>)])]
PriorY ==
    [id          |-> <<"Foo", ".", "y">>,
     source_file |-> TsFile,
     signature   |-> <<"y", ":", SP, "string", ";">>,
     description |-> <<"old">>]

PriorStores == { <<>>, (PathX :> PriorX), (PathX :> PriorX) @@ (PathY :> PriorY) }

SeedInit ==
    /\ out_dir \in PriorStores
    /\ prior_dir = out_dir
    /\ fresh_payloads = <<>>
    /\ generated_paths = {}
    /\ flagged_paths = {}
    /\ prune_orphans = FALSE
    /\ passes = 0
    /\ text = <<>>
    /\ docs = <<>>
    /\ strict = FALSE
    /\ example_lang = LangObjc
    /\ original = <<>>
    /\ replaced_ids = <<>>
    /\ missing_ids = <<>>
    /\ runs = 0
    /\ doc = NoDoc
    /\ doc_lang = LangObjc
    /\ rendered = <<>>
    /\ redoc = NoDoc
    /\ rerendered = <<>>
    /\ pc = "idle"
    /\ InferIdle /\ MainIdle /\ ExtractIdle /\ InsertIdle

\* one run of the seed command over the current content of the file
SeedPass ==
    /\ passes < MaxPasses
    /\ \E s \in TsTexts, limit \in {NoLimit, 1}, prune \in BOOLEAN :
         \E r \in {seed_docs(out_dir, s, limit, prune)} :
             /\ prior_dir' = out_dir
             /\ out_dir' = r.dir
             /\ fresh_payloads' = r.fresh
             /\ generated_paths' = r.generated_paths
             /\ flagged_paths' = r.flagged
             /\ prune_orphans' = prune
    /\ passes' = passes + 1
    /\ UNCHANGED <<syncVars, renderVars, inferVars, mainVars, extractVars, insertVars>>

SeedNext == SeedPass

SeedSpec == SeedInit /\ [][SeedNext]_vars

-----------------------------------------------------------------------------
(* Claims about the store merge. *)

\* the examples of a stored document
ExamplesOf(d) == IF "examples" \in DOMAIN d THEN d.examples ELSE <<>>
\* the paths the last pass rewrote over a document it found
Rewritten == generated_paths \cap DOMAIN prior_dir

\* C11: when the last pass wrote a document whose fresh payload lacks an
\* example key that the document found at its path has, the written document
\* holds that example exactly as found: title and every language's code.
C11_MergeKeepsAbsentKey ==
    passes >= 1 =>
        \A p \in Rewritten :
            \A k \in DOMAIN ExamplesOf(prior_dir[p]) \ DOMAIN ExamplesOf(fresh_payloads[p]) :
                /\ p \in DOMAIN out_dir
                /\ k \in DOMAIN ExamplesOf(out_dir[p])
                /\ out_dir[p].examples[k] = prior_dir[p].examples[k]

\* C11 witness: a pass rewrote a document with an example key that the fresh
\* payload, which has examples of its own, lacks.
C11_Witness ==
    /\ passes >= 1
    /\ \E p \in Rewritten :
          /\ DOMAIN ExamplesOf(fresh_payloads[p]) # {}
          /\ DOMAIN ExamplesOf(prior_dir[p]) \ DOMAIN ExamplesOf(fresh_payloads[p]) # {}

\* the code map of example k of a stored document
CodeOf(d, k) == IF "code" \in DOMAIN ExamplesOf(d)[k] THEN ExamplesOf(d)[k].code ELSE <<>>
\* the example keys the fresh payload and the document found at p share
SharedKeys(p) == DOMAIN ExamplesOf(prior_dir[p]) \cap DOMAIN ExamplesOf(fresh_payloads[p])

\* C12: when the last pass wrote a document and an example key is in both the
\* fresh payload and the document found at its path, the written code map of
\* that key has the languages of both, the fresh code for every language the
\* fresh payload has and the found code, unchanged, for every other one.
C12_MergeLanguageUnion ==
    passes >= 1 =>
        \A p \in Rewritten : \A k \in SharedKeys(p) :
            /\ DOMAIN CodeOf(out_dir[p], k)
                 = DOMAIN CodeOf(prior_dir[p], k) \cup DOMAIN CodeOf(fresh_payloads[p], k)
            /\ \A l \in DOMAIN CodeOf(fresh_payloads[p], k) :
                  CodeOf(out_dir[p], k)[l] = CodeOf(fresh_payloads[p], k)[l]
            /\ \A l \in DOMAIN CodeOf(prior_dir[p], k) \ DOMAIN CodeOf(fresh_payloads[p], k) :
                  CodeOf(out_dir[p], k)[l] = CodeOf(prior_dir[p], k)[l]

\* C12 witness: a shared key where the fresh payload brings a language the
\* found document has with other code, and the found document has a language
\* the fresh payload lacks.
C12_Witness ==
    /\ passes >= 1
    /\ \E p \in Rewritten : \E k \in SharedKeys(p) :
          /\ \E l \in DOMAIN CodeOf(fresh_payloads[p], k) \cap DOMAIN CodeOf(prior_dir[p], k) :
                CodeOf(fresh_payloads[p], k)[l] # CodeOf(prior_dir[p], k)[l]
          /\ DOMAIN CodeOf(prior_dir[p], k) \ DOMAIN CodeOf(fresh_payloads[p], k) # {}

\* the (example key, language) pairs of a stored document
Pairs(d) == UNION { {<<k, l>> : l \in DOMAIN CodeOf(d, k)} : k \in DOMAIN ExamplesOf(d) }

\* C13: a pass without prune leaves every document it found in the store, and
\* each keeps every (example key, language) pair it had, whatever the file
\* holds at that pass.
C13_PairsNeverShrink ==
    (passes >= 1 /\ ~prune_orphans) =>
        \A p \in DOMAIN prior_dir :
            /\ p \in DOMAIN out_dir
            /\ Pairs(prior_dir[p]) \subseteq Pairs(out_dir[p])

\* C13 witness: the second of two passes rewrote a document and added a
\* language to an example that had another language before.
C13_Witness ==
    /\ passes = MaxPasses
    /\ ~prune_orphans
    /\ \E p \in Rewritten :
          /\ Pairs(prior_dir[p]) # {}
          /\ Pairs(out_dir[p]) \ Pairs(prior_dir[p]) # {}
          /\ Pairs(prior_dir[p]) \ Pairs(fresh_payloads[p]) # {}

\* C14: in a written document the signature is the fresh one; the categories
\* and the description are the fresh ones when the fresh payload has them; and
\* when the fresh payload has no description the description found at the
\* path is kept.
C14_FreshFieldsWin ==
    passes >= 1 =>
        \A p \in generated_paths :
            /\ out_dir[p].signature = fresh_payloads[p].signature
            /\ "categories" \in DOMAIN fresh_payloads[p]
                 => /\ "categories" \in DOMAIN out_dir[p]
                    /\ out_dir[p].categories = fresh_payloads[p].categories
            /\ "description" \in DOMAIN fresh_payloads[p]
                 => /\ "description" \in DOMAIN out_dir[p]
                    /\ out_dir[p].description = fresh_payloads[p].description
            /\ ("description" \notin DOMAIN fresh_payloads[p] /\ p \in DOMAIN prior_dir
                  /\ Truthy(prior_dir[p], "description"))
                 => /\ "description" \in DOMAIN out_dir[p]
                    /\ out_dir[p].description = prior_dir[p].description

\* C14 witness: one pass wrote a document without a fresh description over one
\* that had a description, with fresh categories that differ from the found
\* ones.
C14_Witness ==
    /\ passes >= 1
    /\ \E p \in Rewritten :
          /\ "description" \notin DOMAIN fresh_payloads[p]
          /\ Truthy(prior_dir[p], "description")
          /\ "categories" \in DOMAIN fresh_payloads[p]
          /\ "categories" \in DOMAIN prior_dir[p]
          /\ fresh_payloads[p].categories # prior_dir[p].categories

\* the identifiers of the documents of a store
IdsOf(dir) == {dir[p].id : p \in DOMAIN dir}

\* C15: a pass without prune deletes no document (the identifiers stored
\* before it are stored after it); a pass with prune leaves exactly the
\* documents it wrote.
C15_DocumentLifecycle ==
    passes >= 1 =>
        /\ ~prune_orphans => /\ DOMAIN prior_dir \subseteq DOMAIN out_dir
                             /\ IdsOf(prior_dir) \subseteq IdsOf(out_dir)
        /\ prune_orphans => /\ DOMAIN out_dir = generated_paths
                            /\ \A p \in DOMAIN out_dir : p \in DOMAIN fresh_payloads

\* C15 witness: a pass with prune wrote one document and removed another one.
C15_Witness ==
    /\ passes >= 1
    /\ prune_orphans
    /\ generated_paths # {}
    /\ DOMAIN prior_dir \ generated_paths # {}

\* C16 (as claimed): after a seed pass, from any prior store, the store holds
\* no document for an identifier whose comment block is flagged internal or
\* hidden.
C16_FlaggedNotStored ==
    passes >= 1 => \A p \in flagged_paths : p \notin DOMAIN out_dir

-----------------------------------------------------------------------------
(* Identifier inference on its own: one call of _infer_doc_id.             *)

\* signature lines, each with what it declares: an exported declaration, a
\* member of a container (field or method), an enum member, or nothing that
\* takes an identifier
Signatures ==
    { [line |-> <<"export", SP, "interface", SP, "Foo", SP, "{">>,
       declares |-> "exported", name |-> <<"Foo">>],
      [line |-> <<"export", SP, "class", SP, "Bar", SP, "{">>,
       declares |-> "exported", name |-> <<"Bar">>],
      [line |-> <<"export", SP, "enum", SP, "Bar", SP, "{">>,
       declares |-> "exported", name |-> <<"Bar">>],
      [line |-> <<"export", SP, "type", SP, "T", SP, "=", SP, "string", ";">>,
       declares |-> "exported", name |-> <<"T">>],
      [line |-> <<"export", SP, "const", SP, "Bar", SP, "=", SP, "{">>,
       declares |-> "exported", name |-> <<"Bar">>],
      [line |-> <<SP, SP, "x", ":", SP, "string", ";">>,
       declares |-> "member", name |-> <<"x">>],
      [line |-> <<SP, SP, "readonly", SP, "y", "?", ":", SP, "string", ";">>,
       declares |-> "member", name |-> <<"y">>],
      [line |-> <<SP, SP, "public", SP, "x", ":", SP, "string", ";">>,
       declares |-> "member", name |-> <<"x">>],
      [line |-> <<SP, SP, "f", "(", "a", ":", SP, "string", ")", ":", SP, "string", ";">>,
       declares |-> "member", name |-> <<"f">>],
      [line |-> <<SP, SP, "publicKey", ":", SP, "string", ";">>,
       declares |-> "member", name |-> <<"publicKey">>],
      [line |-> <<SP, SP, "Bar", SP, "=", SP, "1", ",">>,
       declares |-> "enum_member", name |-> <<"Bar">>],
      [line |-> <<"export", SP, "function", SP, "f", "(", ")", SP, "{">>,
       declares |-> "nothing", name |-> <<>>],
      [line |-> <<"}">>,
       declares |-> "nothing", name |-> <<>>] }

\* the container the signature stands in: none, or a name with its kind
Containers ==
    { [name |-> <<>>, kind |-> <<>>] }
    \cup { [name |-> n, kind |-> <<k>>] :
             n \in { <<"Foo">>, <<"BackgroundGeolocationEvents">> },
             k \in {"interface", "class", "enum", "const"} }

InferInit ==
    /\ sig_line \in {sg.line : sg \in Signatures}
    /\ \E c \in Containers : ctr_name = c.name /\ ctr_kind = c.kind
    /\ inferred_id = <<>>
    /\ ipc = "start"
    /\ text = <<>>
    /\ docs = <<>>
    /\ strict = FALSE
    /\ example_lang = LangObjc
    /\ original = <<>>
    /\ replaced_ids = <<>>
    /\ missing_ids = <<>>
    /\ runs = 0
    /\ doc = NoDoc
    /\ doc_lang = LangObjc
    /\ rendered = <<>>
    /\ redoc = NoDoc
    /\ rerendered = <<>>
    /\ pc = "idle"
    /\ SeedIdle /\ MainIdle /\ ExtractIdle /\ InsertIdle

Infer ==
    /\ ipc = "start"
    /\ inferred_id' = _infer_doc_id(sig_line, ctr_name, ctr_kind)
    /\ ipc' = "done"
    /\ UNCHANGED <<sig_line, ctr_name, ctr_kind>>
    /\ UNCHANGED <<syncVars, renderVars, seedVars, mainVars, extractVars, insertVars>>

InferNext == Infer

InferSpec == InferInit /\ [][InferNext]_vars

\* what the signature line of the state declares
Declared == CHOOSE sg \in Signatures : sg.line = sig_line
\* the public name of the container of the state
PublicContainer ==
    IF ctr_name = <<"BackgroundGeolocationEvents">> THEN <<"BackgroundGeolocation">>
    ELSE ctr_name

\* C17 (as claimed): an exported declaration yields its own name whatever the
\* container; with a container, a field or method, or an enum member of an
\* enum, yields Container.Member with the container's public name; a line
\* that declares nothing, or a member without container, yields no
\* identifier.
C17_IdentifierInference ==
    ipc = "done" =>
        /\ Declared.declares = "exported" => inferred_id = Declared.name
        /\ (Declared.declares = "member" /\ ctr_name # <<>>)
             => inferred_id = PublicContainer \o <<".">> \o Declared.name
        /\ (Declared.declares = "enum_member" /\ ctr_kind = <<"enum">>)
             => inferred_id = PublicContainer \o <<".">> \o Declared.name
        /\ Declared.declares = "nothing" => inferred_id = <<>>
        /\ (Declared.declares \in {"member", "enum_member"} /\ ctr_name = <<>>)
             => inferred_id = <<>>

-----------------------------------------------------------------------------
(* The synchronize command: main() over a tree of header files, in each    *)
(* mode.                                                                   *)

\* the files iter_source_files yields, in its order
Paths == <<"a.h", "b.h">>

\* a slip: a file is recorded as changed whatever its computed text
record_change_always(chgs, path, orig, r) ==
    Append(chgs, [path |-> path, original |-> orig, updated |-> r.text,
                  replaced_ids |-> r.replaced, missing_ids |-> r.missing])

\* main: the changes list after one file of the loop
record_change(chgs, path, orig, r) ==
    IF r.text # orig
    THEN Append(chgs, [path |-> path, original |-> orig, updated |-> r.text,
                       replaced_ids |-> r.replaced, missing_ids |-> r.missing])
    ELSE chgs

\* a slip: the check mode is looked at before the strict flag
after_loop_check_first(run, is_strict, missing, chgs) ==
    IF run = "check" /\ chgs # <<>> THEN [next |-> "exited", code |-> 1]
    ELSE IF missing # {} /\ is_strict THEN [next |-> "exited", code |-> 2]
    ELSE IF chgs = <<>> THEN [next |-> "exited", code |-> 0]
    ELSE IF run = "write" THEN [next |-> "write", code |-> -1]
    ELSE [next |-> "exited", code |-> 0]

\* main after the loop: where it goes on and, when it returns, the exit code
after_loop(run, is_strict, missing, chgs) ==
    IF missing # {} /\ is_strict THEN [next |-> "exited", code |-> 2]
    ELSE IF chgs = <<>> THEN [next |-> "exited", code |-> 0]
    ELSE IF run = "check" THEN [next |-> "exited", code |-> 1]
    ELSE IF run = "write" THEN [next |-> "write", code |-> -1]
    ELSE [next |-> "exited", code |-> 0]

\* the contents a header file may have
HeaderTexts ==
    SourceItems(<<>>, <<NL>>)
    \cup { BlockText(<<>>, << DocIdMarker(IdA), <<"old">> >>) \o <<NL>> \o Declaration
           \o BlockText(<<>>, << DocIdMarker(IdB), <<"hello">> >>) \o <<NL>> \o Declaration }

MainInit ==
    /\ args_state \in {"ok", "root_not_dir", "docs_db_not_dir"}
    /\ disk \in [Range(Paths) -> HeaderTexts]
    /\ on_entry = disk
    /\ run_mode \in {"write", "check", "dry_run"}
    /\ strict \in BOOLEAN
    /\ docs = (IdA :> DocHello(IdA))
    /\ example_lang = LangObjc
    /\ file_idx = 0
    /\ changes = <<>>
    /\ missing_total = {}
    /\ written_files = {}
    /\ exit_code = -1
    /\ mpc = "start"
    /\ text = <<>>
    /\ original = <<>>
    /\ replaced_ids = <<>>
    /\ missing_ids = <<>>
    /\ runs = 0
    /\ doc = NoDoc
    /\ doc_lang = LangObjc
    /\ rendered = <<>>
    /\ redoc = NoDoc
    /\ rerendered = <<>>
    /\ pc = "idle"
    /\ SeedIdle /\ InferIdle /\ ExtractIdle /\ InsertIdle

\* main up to the loop: --root must be a directory (return 2), and so must
\* --docs-db (load_docs_db raises SystemExit with a message: exit code 1)
CheckArgs ==
    /\ mpc = "start"
    /\ IF args_state = "root_not_dir"
       THEN mpc' = "exited" /\ exit_code' = 2
       ELSE IF args_state = "docs_db_not_dir"
       THEN mpc' = "exited" /\ exit_code' = 1
       ELSE mpc' = "scan" /\ exit_code' = exit_code
    /\ UNCHANGED <<args_state, disk, on_entry, run_mode, file_idx, changes,
                   missing_total, written_files>>
    /\ UNCHANGED <<syncVars, renderVars, seedVars, inferVars, extractVars, insertVars>>

\* one iteration of the loop over the source files
ProcessFile ==
    /\ mpc = "scan"
    /\ file_idx < Len(Paths)
    /\ LET path == Paths[file_idx + 1]
       IN  \E r \in {apply_docs_to_text(disk[path], docs, strict, example_lang)} :
             /\ missing_total' = missing_total \cup Range(r.missing)
             /\ changes' = record_change(changes, path, disk[path], r)
    /\ file_idx' = file_idx + 1
    /\ UNCHANGED <<args_state, disk, on_entry, run_mode, written_files, exit_code, mpc>>
    /\ UNCHANGED <<syncVars, renderVars, seedVars, inferVars, extractVars, insertVars>>

\* main after the loop, up to the return or to the first write
Report ==
    /\ mpc = "scan"
    /\ file_idx = Len(Paths)
    /\ LET o == after_loop(run_mode, strict, missing_total, changes)
       IN  mpc' = o.next /\ exit_code' = o.code
    /\ UNCHANGED <<args_state, disk, on_entry, run_mode, file_idx, changes,
                   missing_total, written_files>>
    /\ UNCHANGED <<syncVars, renderVars, seedVars, inferVars, extractVars, insertVars>>

\* for c in changes: _write_text(c.path, c.updated), one file per step
WriteFile ==
    /\ mpc = "write"
    /\ Cardinality(written_files) < Len(changes)
    /\ LET c == changes[Cardinality(written_files) + 1]
       IN  /\ disk' = [disk EXCEPT ![c.path] = c.updated]
           /\ written_files' = written_files \cup {c.path}
    /\ UNCHANGED <<args_state, on_entry, run_mode, file_idx, changes, missing_total,
                   exit_code, mpc>>
    /\ UNCHANGED <<syncVars, renderVars, seedVars, inferVars, extractVars, insertVars>>

\* the return after the last write
WriteDone ==
    /\ mpc = "write"
    /\ Cardinality(written_files) = Len(changes)
    /\ mpc' = "exited"
    /\ exit_code' = 0
    /\ UNCHANGED <<args_state, disk, on_entry, run_mode, file_idx, changes,
                   missing_total, written_files>>
    /\ UNCHANGED <<syncVars, renderVars, seedVars, inferVars, extractVars, insertVars>>

MainNext == CheckArgs \/ ProcessFile \/ Report \/ WriteFile \/ WriteDone

MainSpec == MainInit /\ [][MainNext]_vars

-----------------------------------------------------------------------------
(* Claims about the synchronize command. *)

\* what apply_docs_to_text computes for the file the command found at path
Computed(path) == apply_docs_to_text(on_entry[path], docs, strict, example_lang)
\* at least one file has pending changes
Pending == \E p \in Range(Paths) : Computed(p).text # on_entry[p]
\* at least one referenced identifier is unresolved
Unresolved == \E p \in Range(Paths) : Computed(p).missing # <<>>

\* C18 (as claimed): in check mode the command exits with 1 whenever a file
\* has pending changes; with the strict flag it exits with 2 whenever an
\* identifier is unresolved; otherwise it exits with 0.
C18_ExitCodes ==
    mpc = "exited" =>
        /\ (run_mode = "check" /\ Pending) => exit_code = 1
        /\ (strict /\ Unresolved) => exit_code = 2
        /\ (~(run_mode = "check" /\ Pending) /\ ~(strict /\ Unresolved)) => exit_code = 0

\* C18 (amended): when --root and --docs-db are directories, the command exits
\* with 2 if the strict flag is set and an identifier is unresolved, in every
\* mode and whether or not a file would change; otherwise with 1 if it runs in
\* check mode and a file has pending changes; otherwise with 0.
C18_ExitCodesByPriority ==
    (mpc = "exited" /\ args_state = "ok") =>
        exit_code = IF strict /\ Unresolved THEN 2
                    ELSE IF run_mode = "check" /\ Pending THEN 1
                    ELSE 0

\* C18 witness: a strict check run with pending changes and an unresolved
\* identifier has exited.
C18_Witness ==
    /\ mpc = "exited"
    /\ args_state = "ok"
    /\ run_mode = "check"
    /\ strict
    /\ Pending
    /\ Unresolved

-----------------------------------------------------------------------------
(* harvest-docs.py: the tokenizer and the extractor on the normalized lines
   of one doc block. *)

MaxDocLines == 3

LineHello       == <<"hello">>
LineBlank       == <<>>
LineFence       == <<FENCE>>
LineCategory    == <<"@category", SP, "a">>
LineFlagOnly    == <<"@internal">>
LineFlagAndText == <<"hello", SP, "@internal">>
LineExample     == <<"@example", SP, "k">>

DocLineChoices ==
    {LineHello, LineBlank, LineFence, LineCategory, LineFlagOnly, LineFlagAndText,
     LineExample}

\* the normalized lines of a doc block: up to MaxDocLines lines
DocLineSeqs == UNION { [1..n -> DocLineChoices] : n \in 1..MaxDocLines }

ExtractInit ==
    /\ doc_lines \in DocLineSeqs
    /\ tokens = <<>>
    /\ extraction = <<>>
    /\ xpc = "start"
    /\ ex_state = <<>>
    /\ text = <<>>
    /\ docs = <<>>
    /\ strict = FALSE
    /\ example_lang = LangObjc
    /\ original = <<>>
    /\ replaced_ids = <<>>
    /\ missing_ids = <<>>
    /\ runs = 0
    /\ doc = NoDoc
    /\ doc_lang = LangObjc
    /\ rendered = <<>>
    /\ redoc = NoDoc
    /\ rerendered = <<>>
    /\ pc = "idle"
    /\ SeedIdle
    /\ InferIdle
    /\ MainIdle
    /\ InsertIdle

\* tokenize_doc_lines on the lines of the block
Tokenize ==
    /\ xpc = "start"
    /\ tokens' = tokenize_doc_lines(doc_lines)
    /\ xpc' = "tokenized"
    /\ UNCHANGED <<doc_lines, extraction, ex_state>>
    /\ UNCHANGED <<syncVars, renderVars, seedVars, inferVars, mainVars, insertVars>>

\* extract_description_examples_categories on the lines of the block
ExtractDoc ==
    /\ xpc = "tokenized"
    /\ extraction' = extract_description_examples_categories(doc_lines)
    /\ xpc' = "done"
    /\ UNCHANGED <<doc_lines, tokens, ex_state>>
    /\ UNCHANGED <<syncVars, renderVars, seedVars, inferVars, mainVars, insertVars>>

ExtractNext == Tokenize \/ ExtractDoc

ExtractSpec == ExtractInit /\ [][ExtractNext]_vars

-----------------------------------------------------------------------------
(* Claims about the tokenizer inside fences. *)

\* line i (1-based) of the block opens or closes a fence
FenceLine(i) == FenceMatch(strip(doc_lines[i]))
\* line i lies between a fence-open line and its matching fence-close line
Inside(i) ==
    /\ ~FenceLine(i)
    /\ Cardinality({j \in 1..(i - 1) : FenceLine(j)}) % 2 = 1
    /\ \E j \in (i + 1)..Len(doc_lines) : FenceLine(j)
\* line i looks like a category, flag or example tag
TagLike(i) ==
    LET s == strip(doc_lines[i])
    IN  \/ CategoryTagMatch(s)
        \/ ExampleTagMatch(s)
        \/ "@internal" \in Range(s)
        \/ "@hidden" \in Range(s)
\* the tokens made from line i
TokensAt(i) == SelectSeq(tokens, LAMBDA t : t.idx = i - 1)

\* C20: every line between a fence-open line and its matching fence-close
\* line is emitted as exactly one TEXT token carrying the raw line; so, when
\* the only tag-like lines of a block are inside its fences, the description
\* is the lines of the block, each once and unmodified, and there is no
\* category, flag or example.
C20_FencePassThrough ==
    /\ xpc \in {"tokenized", "done"} =>
           \A i \in 1..Len(doc_lines) :
               Inside(i) =>
                   TokensAt(i) = << Token("TEXT", doc_lines[i], i - 1, doc_lines[i]) >>
    /\ (xpc = "done" /\ \A i \in 1..Len(doc_lines) : TagLike(i) => Inside(i)) =>
           /\ extraction.desc = DropTrailingBlankDesc(doc_lines)
           /\ extraction.categories = <<>>
           /\ extraction.flags = {}
           /\ extraction.examples = <<>>

-----------------------------------------------------------------------------
(* harvest-docs.py: the tokenizer and the extractor on doc blocks that hold
   examples, titles, categories and flags. *)

MaxSegments == 3

\* the pieces a doc block is put together from, each a sequence of lines
SegProse         == << <<"hello">> >>
SegLabel         == << <<"T", ":">> >>
SegBlank         == << <<>> >>
SegCategory      == << <<"@category", SP, "a">> >>
SegProseFlag     == << <<"hello", SP, "@internal">> >>
SegCategoryFlag  == << <<"@category", SP, "a", SP, "@hidden">> >>
SegExampleFlag   == << <<"@example", SP, "k", SP, "@internal", SP, "@hidden">> >>
SegTag           == << <<"@example">> >>
SegTagLabel      == << <<"@example", SP, "A", SP, "b">> >>
SegFence         == << <<FENCE, "ts">>, <<"c1">>, <<FENCE>> >>
SegFencedTag     == << <<FENCE>>, <<"@example", SP, "k">>, <<FENCE>> >>
SegTagFence      == SegTag \o SegFence
SegTagLabelFence == SegTagLabel \o SegFence

Segments ==
    {SegProse, SegLabel, SegBlank, SegCategory, SegProseFlag, SegCategoryFlag,
     SegExampleFlag, SegTag, SegTagLabel, SegFence, SegFencedTag, SegTagFence,
     SegTagLabelFence}

\* the normalized lines of a doc block: up to MaxSegments pieces
SegmentDocs ==
    UNION { {Flatten(ss) : ss \in [1..n -> Segments]} : n \in 1..MaxSegments }

ExampleInit ==
    /\ doc_lines \in SegmentDocs
    /\ tokens = <<>>
    /\ extraction = <<>>
    /\ xpc = "start"
    /\ ex_state = <<>>
    /\ text = <<>>
    /\ docs = <<>>
    /\ strict = FALSE
    /\ example_lang = LangObjc
    /\ original = <<>>
    /\ replaced_ids = <<>>
    /\ missing_ids = <<>>
    /\ runs = 0
    /\ doc = NoDoc
    /\ doc_lang = LangObjc
    /\ rendered = <<>>
    /\ redoc = NoDoc
    /\ rerendered = <<>>
    /\ pc = "idle"
    /\ SeedIdle
    /\ InferIdle
    /\ MainIdle
    /\ InsertIdle

ExampleSpec == ExampleInit /\ [][ExtractNext]_vars

-----------------------------------------------------------------------------
(* Claims about flags, categories, titles, keys and placeholders. *)

\* the number of fence lines before line i (1-based) is even
OutsideFence(i) == Cardinality({j \in 1..(i - 1) : FenceLine(j)}) % 2 = 0
HasInternal(i) == "@internal" \in Range(doc_lines[i])
HasHidden(i) == "@hidden" \in Range(doc_lines[i])
\* line i without its flag tags, runs of blanks collapsed, stripped
Residual(i) ==
    strip(CollapseSpaces(RemoveLexemes(doc_lines[i], {"@internal", "@hidden"})))
\* the tokens a flagged line is to give
FlagTokens(i) ==
    (IF HasInternal(i) THEN << Token("INTERNAL", <<>>, i - 1, doc_lines[i]) >> ELSE <<>>)
    \o (IF HasHidden(i) THEN << Token("HIDDEN", <<>>, i - 1, doc_lines[i]) >> ELSE <<>>)
    \o (IF Residual(i) # <<>>
        THEN << Token("TEXT", Residual(i), i - 1, Residual(i)) >> ELSE <<>>)

\* C21: every line outside a fence that holds @internal or @hidden, alone, with
\* prose or with another tag, gives the INTERNAL/HIDDEN tokens and then the
\* line stripped of the flag tags as a TEXT token, if anything is left.
C21_FlagsAnywhere ==
    xpc \in {"tokenized", "done"} =>
        \A i \in 1..Len(doc_lines) :
            (OutsideFence(i) /\ ~FenceLine(i) /\ (HasInternal(i) \/ HasHidden(i)))
                => TokensAt(i) = FlagTokens(i)


\* line i is outside fenced code: not a fence line, not between fence lines
OutsideCode(i) == OutsideFence(i) /\ ~FenceLine(i)
\* the category values of the category-tag lines i..Len(doc_lines) that are
\* outside fenced code, in source order
RECURSIVE CategoriesFrom(_)
CategoriesFrom(i) ==
    IF i > Len(doc_lines) THEN <<>>
    ELSE LET s == strip(doc_lines[i])
         IN  (IF OutsideCode(i) /\ CategoryTagMatch(s)
              THEN << strip(SubSeq(s, 3, Len(s))) >> ELSE <<>>)
             \o CategoriesFrom(i + 1)
\* the flags of the flag tags that are outside fenced code
FlagsOutsideCode ==
    {f \in {"internal", "hidden"} :
        \E i \in 1..Len(doc_lines) :
            /\ OutsideCode(i)
            /\ \/ f = "internal" /\ HasInternal(i)
               \/ f = "hidden" /\ HasHidden(i)}

\* C22: every category-tag line outside fenced code contributes its category,
\* in source order, and every flag tag outside fenced code its flag, wherever
\* they stand relative to the example blocks.
C22_CategoriesAndFlagsIndependent ==
    xpc = "done" =>
        /\ extraction.categories = CategoriesFrom(1)
        /\ extraction.flags = FlagsOutsideCode

-----------------------------------------------------------------------------
(* harvest-docs.py: extract_description_examples_categories, one iteration
   of its loop over the tokens at a time. *)

SegLabelZ  == << <<"Z", ":">> >>
\* an @example tag followed by a label line
SegForward == SegTag \o SegLabelZ

LoopSegments ==
    {SegProse, SegLabel, SegBlank, SegCategory, SegTag, SegTagLabel, SegForward,
     SegFence, SegTagFence, SegTagLabelFence}

LoopDocs ==
    UNION { {Flatten(ss) : ss \in [1..n -> LoopSegments]} : n \in 1..MaxSegments }

LoopInit ==
    /\ doc_lines \in LoopDocs
    /\ tokens = <<>>
    /\ extraction = <<>>
    /\ xpc = "start"
    /\ ex_state = <<>>
    /\ text = <<>>
    /\ docs = <<>>
    /\ strict = FALSE
    /\ example_lang = LangObjc
    /\ original = <<>>
    /\ replaced_ids = <<>>
    /\ missing_ids = <<>>
    /\ runs = 0
    /\ doc = NoDoc
    /\ doc_lang = LangObjc
    /\ rendered = <<>>
    /\ redoc = NoDoc
    /\ rerendered = <<>>
    /\ pc = "idle"
    /\ SeedIdle
    /\ InferIdle
    /\ MainIdle
    /\ InsertIdle

\* the tokens and the locals before the loop
StartLoop ==
    /\ xpc = "start"
    /\ tokens' = tokenize_doc_lines(doc_lines)
    /\ ex_state' = [desc |-> <<>>, examples |-> <<>>, categories |-> <<>>,
                    flags |-> {}, used_keys |-> {}, in_fence |-> FALSE, i |-> 1]
    /\ xpc' = "looping"
    /\ UNCHANGED <<doc_lines, extraction>>
    /\ UNCHANGED <<syncVars, renderVars, seedVars, inferVars, mainVars, insertVars>>

\* one iteration of: while i < len(toks)
LoopStep ==
    /\ xpc = "looping"
    /\ ex_state.i <= Len(tokens)
    /\ ex_state' = extract_step(ex_state, tokens, doc_lines)
    /\ UNCHANGED <<doc_lines, tokens, extraction, xpc>>
    /\ UNCHANGED <<syncVars, renderVars, seedVars, inferVars, mainVars, insertVars>>

\* after the loop: trailing blank description lines dropped, the result returned
FinishLoop ==
    /\ xpc = "looping"
    /\ ex_state.i > Len(tokens)
    /\ extraction' = [desc |-> DropTrailingBlankDesc(ex_state.desc),
                      examples |-> ex_state.examples,
                      categories |-> ex_state.categories,
                      flags |-> ex_state.flags]
    /\ xpc' = "done"
    /\ UNCHANGED <<doc_lines, tokens, ex_state>>
    /\ UNCHANGED <<syncVars, renderVars, seedVars, inferVars, mainVars, insertVars>>

LoopNext == StartLoop \/ LoopStep \/ FinishLoop

LoopSpec == LoopInit /\ [][LoopNext]_vars

\* the loop returns what extract_description_examples_categories returns
LoopAgreesWithExtractor ==
    xpc = "done" => extraction = extract_description_examples_categories(doc_lines)


-----------------------------------------------------------------------------
(* Claims about the example branch of the extractor's loop. *)

\* the token the loop is at
CurTok == tokens[ex_state.i]
\* the loop is at an EXAMPLE token outside a description fence
AtExample ==
    /\ xpc = "looping"
    /\ ex_state.i <= Len(tokens)
    /\ ~ex_state.in_fence
    /\ CurTok.kind = "EXAMPLE"
\* the label on the tag itself
InlineLabel == strip(CurTok.value)
\* the non-blank lines after the tag line (1-based line numbers)
Following == {j \in (CurTok.idx + 2)..Len(doc_lines) : strip(doc_lines[j]) # <<>>}
HasForwardTitle == Following # {} /\ _looks_like_title(doc_lines[Min(Following)])
\* the non-blank lines of the description accumulated so far
Preceding == {k \in 1..Len(ex_state.desc) : strip(ex_state.desc[k]) # <<>>}
HasBackwardTitle == Preceding # {} /\ _looks_like_title(ex_state.desc[Max(Preceding)])
\* the title by the documented precedence
TitleByPrecedence ==
    IF InlineLabel # <<>> THEN InlineLabel
    ELSE IF HasForwardTitle THEN _normalize_title(doc_lines[Min(Following)])
    ELSE IF HasBackwardTitle THEN _normalize_title(ex_state.desc[Max(Preceding)])
    ELSE <<"Example", SP, NumLex(Len(ex_state.examples) + 1)>>
\* the description so far is kept as it is by the step
DescKept ==
    /\ Len(ex_state'.desc) >= Len(ex_state.desc)
    /\ SubSeq(ex_state'.desc, 1, Len(ex_state.desc)) = ex_state.desc

ExtractsExample == AtExample /\ Len(ex_state'.examples) = Len(ex_state.examples) + 1
\* the slug of the title of the example the step extracts; an empty slug
\* falls back to the sequential placeholder
SlugOfTitle ==
    LET title == Last(ex_state'.examples).title
        slug  == JoinWith(Flatten([n \in 1..Len(title) |-> SlugWords(title[n])]), "-")
    IN  IF slug = <<>> THEN <<"example", "-", NumLex(Len(ex_state.examples) + 1)>>
        ELSE slug

\* C24: the key of every extracted example is the slug of its resolved title,
\* whichever way the title was resolved, made unique among the keys already
\* used by appending -2, -3, ...
C24_KeyIsTitleSlug ==
    [][ExtractsExample =>
          Last(ex_state'.examples).key = UniqueKey(SlugOfTitle, 1, ex_state.used_keys)
      ]_vars


-----------------------------------------------------------------------------
(* Claims about the extractor's output. *)

\* line l of a description is a placeholder line: @example <key>
IsPlaceholder(l) == ExampleTagMatch(strip(l)) /\ strip(Tail(strip(l))) # <<>>
\* the keys of the placeholder lines of the extracted description, in order
PlaceholderKeys ==
    LET ph == SelectSeq(extraction.desc, IsPlaceholder)
    IN  [n \in 1..Len(ph) |-> strip(Tail(strip(ph[n])))]
\* the keys of the extracted examples, in order
ExampleKeys == [n \in 1..Len(extraction.examples) |-> extraction.examples[n].key]

\* C25: the example keys are pairwise distinct, and the placeholder lines of
\* the description are, in order, exactly one per extracted example and for
\* no other key.
C25_PlaceholdersMatchExamples ==
    xpc = "done" =>
        /\ \A m, n \in 1..Len(ExampleKeys) : ExampleKeys[m] = ExampleKeys[n] => m = n
        /\ PlaceholderKeys = ExampleKeys


\* C26: when a step at an EXAMPLE token cuts the accumulated description, it
\* extracts an example whose title is the text of the label line removed;
\* when the step extracts no example, the accumulated description is left
\* unchanged.
C26_BackwardLabelRelocated ==
    [][AtExample =>
          /\ (Len(ex_state'.examples) = Len(ex_state.examples) + 1 /\ ~DescKept) =>
                 /\ HasBackwardTitle
                 /\ Last(ex_state'.examples).title
                        = _normalize_title(ex_state.desc[Max(Preceding)])
          /\ Len(ex_state'.examples) = Len(ex_state.examples) =>
                 ex_state'.desc = ex_state.desc
      ]_vars


-----------------------------------------------------------------------------
(* Claims about the splicing of apply_docs_to_text. *)

\* the text after offset pos of a single forward rebuild of s: what lies
\* between the located spans as it is, every resolved block's span replaced
\* by its rendering and the span's trailing whitespace, every unresolved
\* block's span as it is
RECURSIVE ForwardRebuild(_, _, _)
ForwardRebuild(s, blocks, pos) ==
    IF blocks = <<>> THEN Slice(s, pos, Len(s))
    ELSE LET blk == Head(blocks)
         IN  Slice(s, pos, blk.start)
             \o (IF blk.doc_id \in DOMAIN docs
                 THEN Replacement(blk, docs, example_lang)
                 ELSE Slice(s, blk.start, blk.end))
             \o ForwardRebuild(s, Tail(blocks), blk.end)
\* the identifiers of the blocks whose index is in S, in text order
RECURSIVE IdsIn(_, _, _)
IdsIn(blocks, S, n) ==
    IF n > Len(blocks) THEN <<>>
    ELSE (IF n \in S THEN <<blocks[n].doc_id>> ELSE <<>>) \o IdsIn(blocks, S, n + 1)

\* C27: the located spans are ordered and non-overlapping; the output is the
\* single forward rebuild of the input; the unresolved list holds the
\* unresolved blocks' identifiers and the changed list identifiers of
\* resolved blocks, both in ascending text order.
C27_SpliceIsForwardRebuild ==
    runs >= 1 =>
        LET blocks     == find_docblocks_with_ids(original)
            resolved   == {n \in 1..Len(blocks) : blocks[n].doc_id \in DOMAIN docs}
            unresolved == (1..Len(blocks)) \ resolved
        IN  /\ \A n \in 1..Len(blocks) :
                   /\ 0 <= blocks[n].start
                   /\ blocks[n].start < blocks[n].end
                   /\ blocks[n].end <= Len(original)
                   /\ n < Len(blocks) => blocks[n].end <= blocks[n + 1].start
            /\ text = ForwardRebuild(original, blocks, 0)
            /\ missing_ids = IdsIn(blocks, unresolved, 1)
            /\ \E S \in SUBSET resolved : replaced_ids = IdsIn(blocks, S, 1)

\* C27 witness: a run replaced two blocks of one file, and the first
\* replacement changed the length of the text before the second block.
C27_Witness ==
    /\ runs >= 1
    /\ Len(replaced_ids) = 2
    /\ LET blocks == find_docblocks_with_ids(original)
       IN  /\ Len(blocks) = 2
           /\ Len(Replacement(blocks[1], docs, example_lang))
                  # blocks[1].end - blocks[1].start

-----------------------------------------------------------------------------
(* harvest-docs.py --insert-doc-ids: the doc-id markers of the TypeScript
   source. *)

\* DOC_ID_TAG_RE.search(ln), <!--\s*doc-id:\s*(?P<id>[^>]+?)\s*-->: the
\* stripped id of the first marker of the line, <<>> when the line has
\* none.  "-->" is the only lexeme with a ">" in it, so the id runs up to
\* the first "-->"; it needs one character of its own.
DocIdTagHits(ln) ==
    {i \in 1..Len(ln) :
        /\ ln[i] = "<!--"
        /\ LET r == lstrip(SubSeq(ln, i + 1, Len(ln)))
           IN  /\ r # <<>>
               /\ r[1] = "doc-id:"
               /\ \E j \in 3..Len(r) : r[j] = "-->" /\ r[2] # "-->"}
DocIdTagMatches(ln) == DocIdTagHits(ln) # {}
DocIdTagId(ln) ==
    LET i == Min(DocIdTagHits(ln))
        t == Tail(lstrip(SubSeq(ln, i + 1, Len(ln))))
        c == Min({j \in 2..Len(t) : t[j] = "-->"})
    IN  strip(SubSeq(t, 1, c - 1))

\* re.match(r"^(\s*\*\s*)", probe): the star prefix of a line, <<>> when
\* it has none.  The star of a closing "*/" matches too, with no space
\* after it.
StarPrefixOf(probe) ==
    LET w    == LeadingRun(probe, Whitespace)
        rest == SubSeq(probe, Len(w) + 1, Len(probe))
    IN  IF rest = <<>> THEN <<>>
        ELSE IF rest[1] = "*" THEN w \o <<"*">> \o LeadingRun(Tail(rest), Whitespace)
        ELSE IF rest[1] = "*/" THEN w \o <<"*">>
        ELSE <<>>

\* the block's lines with no marker line but the first, which becomes
\* desired_line
RECURSIVE ReplaceMarkers(_, _, _)
ReplaceMarkers(lines, desired_line, first) ==
    IF lines = <<>> THEN <<>>
    ELSE IF DocIdTagMatches(Head(lines))
    THEN (IF first THEN <<desired_line>> ELSE <<>>)
         \o ReplaceMarkers(Tail(lines), desired_line, FALSE)
    ELSE <<Head(lines)>> \o ReplaceMarkers(Tail(lines), desired_line, first)

\* _update_jsdoc_doc_id_block(raw_block, doc_id): (updated_block, changed)
_update_jsdoc_doc_id_block(raw_block, doc_id) ==
    LET lines  == splitlines(raw_block)
        indent == LeadingRun(lines[1], Whitespace)
        idxs   == {i \in 1..Len(lines) : DocIdTagMatches(lines[i])}
        existing_id == IF idxs = {} THEN <<>> ELSE DocIdTagId(lines[Min(idxs)])
        probes == {i \in 2..Min({6, Len(lines)}) : StarPrefixOf(lines[i]) # <<>>}
        star_prefix == IF probes = {} THEN indent \o <<SP, "*", SP>>
                       ELSE StarPrefixOf(lines[Min(probes)])
        desired_line == rstrip(star_prefix \o DocIdMarker(doc_id))
        tail_nl == IF Last(raw_block) = NL THEN <<NL>> ELSE <<>>
    IN  IF raw_block = <<>> THEN [block |-> raw_block, changed |-> FALSE]
        ELSE IF idxs # {}
        THEN [block   |-> join(ReplaceMarkers(lines, desired_line, TRUE)) \o tail_nl,
              changed |-> existing_id # doc_id \/ Cardinality(idxs) > 1]
        ELSE [block   |-> join(<<lines[1], desired_line>> \o Tail(lines)) \o tail_nl,
              changed |-> TRUE]

\* _should_skip_doc_id_insertion(norm_lines)
_should_skip_doc_id_insertion(norm_lines) ==
    With(extract_description_examples_categories(norm_lines), LAMBDA ex :
        "internal" \in ex.flags \/ "hidden" \in ex.flags)

\* insert_doc_ids: the body of the loop over the doc blocks, for the block
\* m of the text s; st holds out_parts, last_end, blocks_updated and
\* whether the loop has left through the limit's break
insert_block(st, m, s, containers, limit) ==
    With(_find_next_signature(s, m.end), LAMBDA sig :
    With(container_for_signature(containers, sig.line_no), LAMBDA ctr :
    With(_infer_doc_id(sig.signature, ctr.name, ctr.kind), LAMBDA id :
        IF st.stop THEN st
        ELSE IF sig.signature = <<>> \/ id = <<>> THEN st
        ELSE IF _should_skip_doc_id_insertion(normalize_doc_block(m.inner)) THEN st
        ELSE With(_update_jsdoc_doc_id_block(Slice(s, m.start, m.end), id), LAMBDA u :
                 IF ~u.changed THEN st
                 ELSE [out_parts      |-> st.out_parts \o Slice(s, st.last_end, m.start)
                                                       \o u.block,
                       last_end       |-> m.end,
                       blocks_updated |-> st.blocks_updated + 1,
                       stop           |-> limit # NoLimit /\ st.blocks_updated + 1 >= limit]))))

RECURSIVE insert_blocks(_, _, _, _, _)
insert_blocks(st, ms, s, containers, limit) ==
    IF ms = <<>> THEN st
    ELSE insert_blocks(insert_block(st, Head(ms), s, containers, limit),
                       Tail(ms), s, containers, limit)

\* insert_doc_ids(limit) on the one file of the tree: the text the file
\* holds afterwards and the number of blocks updated
insert_doc_ids(s, limit) ==
    With(insert_blocks([out_parts |-> <<>>, last_end |-> 0, blocks_updated |-> 0,
                        stop |-> FALSE],
                       DocBlockFinditer(s, 0), s, containers_by_line(splitlines(s)), limit),
         LAMBDA st :
            [text           |-> IF st.blocks_updated > 0
                                THEN st.out_parts \o Slice(s, st.last_end, Len(s))
                                ELSE s,
             blocks_updated |-> st.blocks_updated])

-----------------------------------------------------------------------------
(* InsertSpec: passes of --insert-doc-ids over one TypeScript file. *)

IdX == <<"Foo", ".", "x">>
IdY == <<"Foo", ".", "y">>

\* /** hello */ on one line
TsOneLine == <<SP, SP, "/**", SP, "hello", SP, "*/", NL>>
\* a block whose lines carry no star
TsBare == <<SP, SP, "/**", NL, SP, SP, SP, "hello", NL, SP, SP, SP, "*/", NL>>

\* the doc blocks a member may carry before the first pass: without a
\* marker, with its own marker, with another member's, with both, flagged,
\* on one line, without stars
InsertBlocks(own, other) ==
    { TsBlock(BodyHello),
      TsBlock(<<DocIdMarker(own)>> \o BodyHello),
      TsBlock(<<DocIdMarker(other)>> \o BodyHello),
      TsBlock(<<DocIdMarker(other), DocIdMarker(own)>>),
      TsBlock(BodyInternal),
      TsOneLine,
      TsBare }

InsertTexts ==
    { ContainerOpen \o bx \o SigX \o ContainerClose : bx \in InsertBlocks(IdX, IdY) }
    \cup
    { ContainerOpen \o bx \o SigX \o by \o SigY \o ContainerClose :
        bx \in InsertBlocks(IdX, IdY),
        by \in {TsBlock(BodyHello), TsBlock(<<DocIdMarker(IdY)>> \o BodyHello), TsOneLine} }

InsertInit ==
    /\ ts_text \in InsertTexts
    /\ ts_before = ts_text
    /\ ts_changed = 0
    /\ ts_passes = 0
    /\ ts_limit \in {NoLimit, 1}
    /\ text = <<>>
    /\ docs = <<>>
    /\ strict = FALSE
    /\ example_lang = LangObjc
    /\ original = <<>>
    /\ replaced_ids = <<>>
    /\ missing_ids = <<>>
    /\ runs = 0
    /\ doc = NoDoc
    /\ doc_lang = LangObjc
    /\ rendered = <<>>
    /\ redoc = NoDoc
    /\ rerendered = <<>>
    /\ pc = "idle"
    /\ SeedIdle /\ InferIdle /\ MainIdle /\ ExtractIdle

\* one run of harvest-docs.py --insert-doc-ids
InsertPass ==
    /\ ts_passes < MaxPasses
    /\ \E r \in {insert_doc_ids(ts_text, ts_limit)} :
          /\ ts_text' = r.text
          /\ ts_changed' = r.blocks_updated
    /\ ts_before' = ts_text
    /\ ts_passes' = ts_passes + 1
    /\ UNCHANGED <<ts_limit, syncVars, renderVars, seedVars, inferVars, mainVars, extractVars>>

InsertNext == InsertPass

InsertSpec == InsertInit /\ [][InsertNext]_vars

-----------------------------------------------------------------------------
(* The markers after a pass. *)

\* the id insert_doc_ids infers for the block m of the text s, <<>> when
\* the block is not harvestable: no signature, no id, or flagged
HarvestId(s, m) ==
    With(_find_next_signature(s, m.end), LAMBDA sig :
    With(container_for_signature(containers_by_line(splitlines(s)), sig.line_no), LAMBDA ctr :
        IF sig.signature = <<>> THEN <<>>
        ELSE IF _should_skip_doc_id_insertion(normalize_doc_block(m.inner)) THEN <<>>
        ELSE _infer_doc_id(sig.signature, ctr.name, ctr.kind)))

BlockLines(s, m) == splitlines(Slice(s, m.start, m.end))
MarkerLines(s, m) == {i \in 1..Len(BlockLines(s, m)) : DocIdTagMatches(BlockLines(s, m)[i])}

\* the n-th block of the text the pass read was harvestable, and the n-th
\* block of the text it left has one marker line, with the inferred id,
\* which is the block's second line if the pass inserted it
OneMarker(n) ==
    LET before == DocBlockFinditer(ts_before, 0)
        after  == DocBlockFinditer(ts_text, 0)
        id     == HarvestId(ts_before, before[n])
    IN  id # <<>> =>
          /\ n <= Len(after)
          /\ Cardinality(MarkerLines(ts_text, after[n])) = 1
          /\ \A i \in MarkerLines(ts_text, after[n]) :
                /\ DocIdTagId(BlockLines(ts_text, after[n])[i]) = id
                /\ MarkerLines(ts_before, before[n]) = {} => i = 2

\* C28: a run of --insert-doc-ids without a limit leaves every harvestable
\* block, on one line or on several, with exactly one doc-id marker line
\* that carries the inferred id and, where the run inserted it, is the
\* block's second line; and a second run changes no block and leaves the
\* text as it is.
C28_InsertFixedPoint ==
    (ts_limit = NoLimit /\ ts_passes >= 1) =>
        /\ \A n \in 1..Len(DocBlockFinditer(ts_before, 0)) : OneMarker(n)
        /\ ts_passes >= 2 => (ts_changed = 0 /\ ts_text = ts_before)

====
